---- MODULE Spec2Model ----
(***************************************************************************)
(* HalluShield verification pipeline (src/hallushield): the orchestration  *)
(* graph of HalluShieldPipeline, the escalation controller of ModelRouter, *)
(* the claim extractor, the decision policy and the claim-level cache.     *)
(*                                                                         *)
(* Scores are Python floats in [0, 1]; the model keeps them in hundredths  *)
(* (85 is 0.85) and keeps quotients as exact fractions <<num, den>>.       *)
(* A text is a sequence of sentences, a sentence a sequence of words and   *)
(* the whitespace run that separates them.                                 *)
(***************************************************************************)
EXTENDS Integers, Sequences, FiniteSets, TLC

(* The largest number of verification results given to the escalation check
   in the specification SpecEsc. *)
MaxVerified == 10

VARIABLES
    pc,            \* the node of the workflow that runs next, or idle / done / raised
    state,         \* the HalluShieldState dict of the request in flight
    graph,         \* TRUE when langgraph was importable (self.app is not None)
    in_memory,     \* MemoryStore._in_memory
    table,         \* rows of hallushield_claim_verifications
    enabled,       \* MemoryStore._enabled
    trace,         \* history: the nodes run so far by the request
    gen_tiers,     \* history: model_tier of every get_response call of the request
    hits,          \* history: claim texts for which check_claim returned a record
    retrieve_calls,\* history: claim texts passed to EvidenceRetriever.retrieve
    verify_calls,  \* history: claim texts passed to NLIVerifier.verify
    store_calls,   \* history: claim texts passed to store_verification
    failed,        \* history: the external call that raised, or "none"
    decided,       \* history: claim text -> first Decision of a completed request
    stored         \* history: claim text -> record of the latest store_verification call

vars == <<pc, state, graph, in_memory, table, enabled, trace, gen_tiers, hits,
          retrieve_calls, verify_calls, store_calls, failed, decided, stored>>

-----------------------------------------------------------------------------
(* Python dict helpers *)

EmptyDict == <<>>

Get(d, k, default) == IF k \in DOMAIN d THEN d[k] ELSE default

Update(d, u) ==
    [k \in (DOMAIN d) \cup (DOMAIN u) |-> IF k \in DOMAIN u THEN u[k] ELSE d[k]]

Range(s) == {s[i] : i \in DOMAIN s}

RECURSIVE SumSeq(_)
SumSeq(s) == IF s = <<>> THEN 0 ELSE s[1] + SumSeq(Tail(s))

-----------------------------------------------------------------------------
(* Texts *)

RECURSIVE JoinWords(_, _)
JoinWords(words, sep) ==
    IF words = <<>> THEN ""
    ELSE IF Len(words) = 1 THEN words[1]
    ELSE words[1] \o sep \o JoinWords(Tail(words), sep)

Sentence(words, sep) == [words |-> words, sep |-> sep]

sParis    == Sentence(<<"Paris", "is", "in", "France.">>, " ")
sParisWs  == Sentence(<<"Paris", "is", "in", "France.">>, "  ")
sEiffel   == Sentence(<<"The", "Eiffel", "Tower", "was", "built", "in", "1889.">>, " ")
sHello    == Sentence(<<"Hello", "there.">>, " ")
sQuestion == Sentence(<<"Is", "Paris", "big?">>, " ")
sNotSure  == Sentence(<<"I'm", "not", "sure", "about", "this.">>, " ")
sCapital  == Sentence(<<"Paris", "is", "the", "capital", "of", "France.">>, " ")
sToday    == Sentence(<<"Paris", "is", "in", "France", "today.">>, " ")

(* The generation outputs the collaborators may return. *)
Responses ==
    { <<>>,
      <<sEiffel, sHello>>,
      <<sParis, sParisWs, sHello>>,
      <<sParis, sQuestion, sQuestion>>,
      <<sParis, sEiffel>>,
      <<sNotSure, sParis, sHello>> }

RECURSIVE FlatWords(_)
FlatWords(text) ==
    IF text = <<>> THEN <<>> ELSE text[1].words \o FlatWords(Tail(text))

(* str.lower() on the words of the vocabulary *)
LowerWord(w) ==
    CASE w = "Paris"   -> "paris"
      [] w = "France." -> "france."
      [] w = "France"  -> "france"
      [] w = "The"     -> "the"
      [] w = "Eiffel"  -> "eiffel"
      [] w = "Tower"   -> "tower"
      [] w = "Hello"   -> "hello"
      [] w = "Is"      -> "is"
      [] w = "I'm"     -> "i'm"
      [] OTHER         -> w

Lower(words) == [i \in DOMAIN words |-> LowerWord(words[i])]

(* a word without the punctuation that ends it *)
Bare(w) ==
    CASE w = "France." -> "France"
      [] w = "france." -> "france"
      [] w = "1889."   -> "1889"
      [] w = "there."  -> "there"
      [] w = "big?"    -> "big"
      [] w = "this."   -> "this"
      [] w = "today."  -> "today"
      [] OTHER         -> w

(* `phrase in text`, on word boundaries *)
Contains(words, phrase) ==
    \E i \in 0..(Len(words) - Len(phrase)) :
        \A j \in 1..Len(phrase) :
            \/ words[i + j] = phrase[j]
            \/ j = Len(phrase) /\ Bare(words[i + j]) = phrase[j]

-----------------------------------------------------------------------------
(* claim_extractor.py *)

(* "1." ... : the sentences of a numbered list, each one a digit *)
Numeral(k) == ToString(k) \o "."

Digits       == {"1889."} \cup {Numeral(k) : k \in 1..(MaxVerified + 1)}
Capitalized  == {"Paris", "France.", "France", "The", "Eiffel", "Tower", "Hello", "Is"}
CopulaOrVerb == {"is", "are", "was", "were", "has", "have", "had", "will", "won",
                 "founded", "born", "died", "released", "created", "located"}
NumericWords  == {"percent", "usd", "million", "billion"}
TemporalWords == {"jan", "feb", "mar", "apr", "may", "jun", "jul", "aug", "sep",
                  "sept", "oct", "nov", "dec", "yesterday", "today", "tomorrow"}
LocativeWords == {"in", "at", "near", "located", "based"}

HasWord(s, set) == \E i \in DOMAIN s.words : Bare(LowerWord(s.words[i])) \in set

_looks_factual(s) ==
    LET has_digit          == \E i \in DOMAIN s.words : s.words[i] \in Digits
        has_capitalized    == \E i \in DOMAIN s.words : s.words[i] \in Capitalized
        has_copula_or_verb == HasWord(s, CopulaOrVerb)
    IN  has_digit \/ (has_capitalized /\ has_copula_or_verb)

_infer_claim_type_locative_first(s) ==
    IF HasWord(s, LocativeWords) THEN "entity"
    ELSE IF (\E i \in DOMAIN s.words : s.words[i] \in Digits) \/ HasWord(s, NumericWords)
    THEN "numerical"
    ELSE IF HasWord(s, TemporalWords) THEN "temporal"
    ELSE "event"

_infer_claim_type(s) ==
    IF (\E i \in DOMAIN s.words : s.words[i] \in Digits) \/ HasWord(s, NumericWords)
    THEN "numerical"
    ELSE IF HasWord(s, TemporalWords) THEN "temporal"
    ELSE IF HasWord(s, LocativeWords) THEN "entity"
    ELSE "event"

_normalize_claim_keep_whitespace(s) == JoinWords(s.words, s.sep)

(* re.sub(r"\s+", " ", sentence).strip() *)
_normalize_claim(s) == JoinWords(s.words, " ")

(* hashlib.md5(claim_text).hexdigest()[:16]: a digest that is a function of the
   text alone, kept symbolic (collisions of the 64-bit prefix are left out) *)
_generate_claim_id(claim_text) == "md5:" \o claim_text

EndsWithQuestion(s) == s.words # <<>> /\ s.words[Len(s.words)] \in {"big?"}

RECURSIVE ExtractFrom(_, _)
ExtractFrom(sentences, idx) ==
    IF idx > Len(sentences) THEN <<>>
    ELSE LET s == sentences[idx]
             rest == ExtractFrom(sentences, idx + 1)
         IN  IF s.words = <<>> \/ EndsWithQuestion(s) \/ ~_looks_factual(s)
             THEN rest
             ELSE <<[id              |-> _generate_claim_id(_normalize_claim(s)),
                     text            |-> _normalize_claim(s),
                     claim_type      |-> _infer_claim_type(s),
                     source_sentence |-> JoinWords(s.words, s.sep),
                     position        |-> idx - 1]>> \o rest

extract_id_of_raw_sentence(text) ==
    LET claims == ExtractFrom(text, 1)
    IN  [i \in DOMAIN claims |->
            [claims[i] EXCEPT !.id = _generate_claim_id(claims[i].source_sentence)]]

extract(text) == ExtractFrom(text, 1)

-----------------------------------------------------------------------------
(* memory_store.py *)

NoneStr == "<None>"

json_dumps(urls) == [json |-> urls]
json_loads(doc)  == doc.json

(* check_claim: Optional[dict] is <<>> (None) or <<record>>; db_ok is whether
   the SELECT went through. *)
check_claim(claim_text, db_ok) ==
    IF enabled /\ db_ok /\ claim_text \in DOMAIN table
    THEN LET row == table[claim_text]
         IN  <<[action          |-> row.action,
                corrected_claim |-> row.corrected_claim,
                evidence_urls   |-> json_loads(row.evidence_urls),
                confidence      |-> row.confidence]>>
    ELSE IF claim_text \in DOMAIN in_memory THEN <<in_memory[claim_text]>> ELSE <<>>

Payload(action, corrected_claim, evidence_urls, confidence) ==
    [action          |-> action,
     corrected_claim |-> corrected_claim,
     evidence_urls   |-> evidence_urls,
     confidence      |-> confidence]

StoreInMemory_setdefault(mem, claim_text, payload) ==
    IF claim_text \in DOMAIN mem THEN mem ELSE Update(mem, claim_text :> payload)

(* store_verification on the mirror *)
StoreInMemory(mem, claim_text, payload) ==
    Update(mem, claim_text :> payload)

(* store_verification on the durable table: the upsert is written, or every
   statement failed and the error was swallowed *)
StoreInTable(tbl, claim_text, payload, written) ==
    IF enabled /\ written
    THEN Update(tbl, claim_text :>
            [action          |-> payload.action,
             corrected_claim |-> payload.corrected_claim,
             evidence_urls   |-> json_dumps(payload.evidence_urls),
             confidence      |-> payload.confidence])
    ELSE tbl

-----------------------------------------------------------------------------
(* Exact fractions for the quotients of _check_escalation and _assemble_answer *)

Frac(num, den) == <<num, den>>

(* a / b > c / d and a / b < c / d, for positive denominators *)
FracGT(f, g) == f[1] * g[2] > g[1] * f[2]
FracLT(f, g) == f[1] * g[2] < g[1] * f[2]
FracEq(f, g) == f[1] * g[2] = g[1] * f[2]

-----------------------------------------------------------------------------
(* model_router.py *)

ModelResponse(text, provider, tier) == [text |-> text, provider |-> provider, tier |-> tier]

(* What a provider call does: it returns a text or raises. *)
ProviderOutcomes == [ok : {TRUE}, text : Responses] \cup [ok : {FALSE}, text : {<<>>}]

(* _call_slm / _call_llm: the first provider, then the fallback provider;
   <<>> when both raised ("All ... providers failed" is raised). *)
_call_slm(first, second) ==
    IF first.ok THEN <<ModelResponse(first.text, "groq", "slm")>>
    ELSE IF second.ok THEN <<ModelResponse(second.text, "huggingface", "slm")>>
    ELSE <<>>

_call_llm_tier_tagged_slm(first, second) ==
    IF first.ok THEN <<ModelResponse(first.text, "gemini", "slm")>>
    ELSE IF second.ok THEN <<ModelResponse(second.text, "anthropic", "slm")>>
    ELSE <<>>

_call_llm_tier(first, second) ==
    IF first.ok THEN <<ModelResponse(first.text, "gemini", "llm")>>
    ELSE IF second.ok THEN <<ModelResponse(second.text, "anthropic", "llm")>>
    ELSE <<>>

get_response(model_tier, first, second) ==
    IF model_tier = "llm" THEN _call_llm_tier(first, second)
    ELSE _call_slm(first, second)

uncertainty_phrases ==
    { <<"i", "don't", "know">>, <<"i'm", "not", "sure">>, <<"i", "cannot">>,
      <<"i", "don't", "have">>, <<"unclear">>, <<"uncertain">>,
      <<"i", "cannot", "confirm">> }

should_escalate_nonstrict(slm_text, hallucination_score, confidence) ==
    LET text == Lower(FlatWords(slm_text))
    IN  IF \E phrase \in uncertainty_phrases : Contains(text, phrase)
        THEN <<TRUE, "SLM expressed uncertainty">>
        ELSE IF ~FracLT(hallucination_score, Frac(3, 10))
        THEN <<TRUE, "High hallucination rate">>
        ELSE IF FracLT(confidence, Frac(5, 10))
        THEN <<TRUE, "Low verification confidence">>
        ELSE IF Len(text) < 10
        THEN <<TRUE, "Response too brief, may lack detail">>
        ELSE <<FALSE, "No escalation needed">>

(* ModelRouter.should_escalate: <<should_escalate, reason>> *)
should_escalate(slm_text, hallucination_score, confidence) ==
    LET text == Lower(FlatWords(slm_text))
    IN  IF \E phrase \in uncertainty_phrases : Contains(text, phrase)
        THEN <<TRUE, "SLM expressed uncertainty">>
        ELSE IF FracGT(hallucination_score, Frac(3, 10))
        THEN <<TRUE, "High hallucination rate">>
        ELSE IF FracLT(confidence, Frac(5, 10))
        THEN <<TRUE, "Low verification confidence">>
        ELSE IF Len(text) < 10
        THEN <<TRUE, "Response too brief, may lack detail">>
        ELSE <<FALSE, "No escalation needed">>

-----------------------------------------------------------------------------
(* evidence_retriever.py: what retrieve(claim.text) returns to the pipeline *)

Evidence(source_url, snippet, relevance_score, credibility_score) ==
    [source_url        |-> source_url,
     snippet           |-> snippet,
     relevance_score   |-> relevance_score,
     credibility_score |-> credibility_score]

(* re.findall(r"[A-Za-z0-9]+", claim), lowered, of length >= 4 *)
ClaimTokens(claim_text) ==
    CASE claim_text = "Paris is in France."                 -> {"paris", "france"}
      [] claim_text = "The Eiffel Tower was built in 1889." ->
             {"eiffel", "tower", "built", "1889"}
      [] claim_text = "Paris is the capital of France."     ->
             {"paris", "capital", "france"}
      [] claim_text = "Paris is in France today."           ->
             {"paris", "france", "today"}
      [] OTHER                                              -> {}

(* A snippet is the set of lowered tokens that occur in it; relevance_score is
   the ranked product relevance x credibility, in ten-thousandths. *)
PlaceholderEvidence(claim_text) ==
    <<Evidence("https://example.com/evidence/0", ClaimTokens(claim_text), 4800, 60)>>

ReferenceEvidence ==
    <<Evidence("https://en.wikipedia.org/wiki/Eiffel_Tower",
               {"paris", "eiffel", "tower"}, 5200, 80),
      Evidence("https://en.wikipedia.org/wiki/Hello", {"hello"}, 5200, 80)>>

(* The ranked lists one retrieve call may return. *)
RetrieveKinds == {"empty", "placeholder", "reference"}

RetrieveResult(claim_text, kind) ==
    CASE kind = "empty"       -> <<>>
      [] kind = "placeholder" -> PlaceholderEvidence(claim_text)
      [] OTHER                -> ReferenceEvidence

-----------------------------------------------------------------------------
(* verifier.py *)

VerificationResult(claim_id, support, contradiction, neutral, agreement, evidence_list) ==
    [claim_id            |-> claim_id,
     support_score       |-> support,
     contradiction_score |-> contradiction,
     neutral_score       |-> neutral,
     evidence_agreement  |-> agreement,
     source_count        |-> Len(evidence_list),
     evidence_ids        |-> [i \in DOMAIN evidence_list |-> evidence_list[i].source_url]]

Max(a, b) == IF a >= b THEN a ELSE b
Min(a, b) == IF a <= b THEN a ELSE b

SetMax(S) == CHOOSE x \in S : \A y \in S : y <= x
_heuristic_support_without_floor(claim_text, evidence_list) ==
    LET tokens == ClaimTokens(claim_text)
        ratio(e) == (100 * Cardinality(tokens \cap e.snippet)) \div Max(1, Cardinality(tokens))
        scores == {ratio(evidence_list[i]) : i \in DOMAIN evidence_list}
        base == IF scores = {} THEN 0 ELSE SetMax(scores)
    IN  IF tokens = {} THEN 30
        ELSE Max(0, Min(100, (80 * base) \div 100))

(* _heuristic_support, in hundredths *)
_heuristic_support(claim_text, evidence_list) ==
    LET tokens == ClaimTokens(claim_text)
        ratio(e) == (100 * Cardinality(tokens \cap e.snippet)) \div Max(1, Cardinality(tokens))
        scores == {ratio(evidence_list[i]) : i \in DOMAIN evidence_list}
        base == IF scores = {} THEN 0 ELSE SetMax(scores)
    IN  IF tokens = {} THEN 30
        ELSE Max(0, Min(100, 20 + (80 * base) \div 100))

(* What _verify_with_llm returns: "none" (no provider configured, or a reply
   that _parse_json cannot read), a parsed verdict, or an exception raised by
   the scorer call. *)
vContradicted ==
    [support_score |-> 10, contradiction_score |-> 80, neutral_score |-> 10, confidence |-> 80]

ScorerOutcomes ==
    { [kind |-> "none",    verdict |-> vContradicted],
      [kind |-> "verdict", verdict |-> vContradicted] }

verify_contradiction_as_complement(claim_id, claim_text, evidence_list, llm_result) ==
    IF evidence_list = <<>>
    THEN VerificationResult(claim_id, 0, 0, 100, 0, <<>>)
    ELSE IF llm_result.kind = "verdict"
    THEN VerificationResult(claim_id,
                            llm_result.verdict.support_score,
                            llm_result.verdict.contradiction_score,
                            llm_result.verdict.neutral_score,
                            llm_result.verdict.confidence,
                            evidence_list)
    ELSE LET support == _heuristic_support(claim_text, evidence_list)
         IN  VerificationResult(claim_id, support, 100 - support, 0,
                                support, evidence_list)

(* NLIVerifier.verify, given the outcome of _verify_with_llm *)
verify(claim_id, claim_text, evidence_list, llm_result) ==
    IF evidence_list = <<>>
    THEN VerificationResult(claim_id, 0, 0, 100, 0, <<>>)
    ELSE IF llm_result.kind = "verdict"
    THEN VerificationResult(claim_id,
                            llm_result.verdict.support_score,
                            llm_result.verdict.contradiction_score,
                            llm_result.verdict.neutral_score,
                            llm_result.verdict.confidence,
                            evidence_list)
    ELSE LET support == _heuristic_support(claim_text, evidence_list)
         IN  VerificationResult(claim_id, support, 0, Max(0, 100 - support - 0),
                                support, evidence_list)

-----------------------------------------------------------------------------
(* policy.py *)

_rule_based_action_nonstrict(verification) ==
    IF verification.support_score >= 85 /\ verification.contradiction_score < 10
    THEN "ACCEPT"
    ELSE IF verification.contradiction_score > 70 THEN "CORRECT"
    ELSE IF verification.source_count < 2 \/ verification.evidence_agreement < 50
    THEN "ABSTAIN"
    ELSE "FLAG_FOR_HUMAN"

_rule_based_action(verification) ==
    IF verification.support_score > 85 /\ verification.contradiction_score < 10
    THEN "ACCEPT"
    ELSE IF verification.contradiction_score > 70 THEN "CORRECT"
    ELSE IF verification.source_count < 2 \/ verification.evidence_agreement < 50
    THEN "ABSTAIN"
    ELSE "FLAG_FOR_HUMAN"

_reasoning(action) ==
    CASE action = "ACCEPT"  -> "Evidence supports the claim."
      [] action = "CORRECT" -> "Evidence contradicts the claim."
      [] action = "ABSTAIN" -> "Insufficient evidence confidence."
      [] OTHER              -> "Mixed evidence signals; requires review."

Decision(claim_id, action, original_claim, corrected_claim, evidence_urls, confidence, reasoning) ==
    [claim_id        |-> claim_id,
     action          |-> action,
     original_claim  |-> original_claim,
     corrected_claim |-> corrected_claim,
     evidence_urls   |-> evidence_urls,
     confidence      |-> confidence,
     reasoning       |-> reasoning]

decide_with_correction(claim, verification, evidence) ==
    LET action == _rule_based_action(verification)
    IN  Decision(claim.id, action, claim.text,
                 IF action = "CORRECT" THEN "Not so: " \o claim.text ELSE NoneStr,
                 [i \in DOMAIN evidence |-> evidence[i].source_url],
                 verification.evidence_agreement,
                 _reasoning(action))

decide(claim, verification, evidence) ==
    LET action == _rule_based_action(verification)
    IN  Decision(claim.id, action, claim.text, NoneStr,
                 [i \in DOMAIN evidence |-> evidence[i].source_url],
                 verification.evidence_agreement,
                 _reasoning(action))

-----------------------------------------------------------------------------
(* pipeline.py: the nodes, each from the state to the update it returns *)

Tier(st) == IF Get(st, "force_llm_tier", FALSE) THEN "llm" ELSE "slm"

(* _call_llm: <<>> when get_response raised, else <<update>> *)
_call_llm(st, first, second) ==
    LET response == get_response(Tier(st), first, second)
    IN  IF response = <<>> THEN <<>>
        ELSE <<[raw_llm_response |-> response[1].text,
                llm_metadata     |-> [provider |-> response[1].provider,
                                      tier     |-> response[1].tier]]>>

_extract_claims_keep_first(st) ==
    [claims |-> Get(st, "claims", extract(Get(st, "raw_llm_response", <<>>)))]

_extract_claims(st) == [claims |-> extract(Get(st, "raw_llm_response", <<>>))]

(* the last position of a claim id in the list: a dict keeps the last write *)
LastPos(claims, id) ==
    CHOOSE i \in DOMAIN claims :
        claims[i].id = id /\ \A j \in DOMAIN claims : claims[j].id = id => j <= i

_check_memory(st, db_ok) ==
    LET claims == Get(st, "claims", <<>>)
        found  == {i \in DOMAIN claims : check_claim(claims[i].text, db_ok[i]) # <<>>}
    IN  [cached_claims |->
            [id \in {claims[i].id : i \in found} |->
                LET last == CHOOSE i \in found :
                                claims[i].id = id
                                /\ \A j \in found : claims[j].id = id => j <= i
                IN  check_claim(claims[last].text, db_ok[last])[1]]]

_route_by_cache(st) ==
    IF Cardinality(DOMAIN Get(st, "cached_claims", EmptyDict)) = Len(Get(st, "claims", <<>>))
    THEN "all_cached"
    ELSE "has_new_claims"

RetrievePositions_all(st) == DOMAIN Get(st, "claims", <<>>)

(* the positions of the claims _retrieve_evidence passes to retrieve *)
RetrievePositions(st) ==
    LET claims == Get(st, "claims", <<>>)
    IN  {i \in DOMAIN claims : claims[i].id \notin DOMAIN Get(st, "cached_claims", EmptyDict)}

_retrieve_evidence(st, results) ==
    LET claims == Get(st, "claims", <<>>)
        pos    == RetrievePositions(st)
    IN  [evidence_map |->
            [id \in {claims[i].id : i \in pos} |-> results[LastPos(claims, id)]]]

(* the positions of the claims _verify_claims passes to verify *)
VerifyPositions(st) ==
    LET claims == Get(st, "claims", <<>>)
    IN  {i \in DOMAIN claims :
            Get(Get(st, "evidence_map", EmptyDict), claims[i].id, <<>>) # <<>>}

_verify_claims(st, llm_results) ==
    LET claims == Get(st, "claims", <<>>)
        pos    == VerifyPositions(st)
    IN  [verification_results |->
            [id \in {claims[i].id : i \in pos} |->
                LET last == LastPos(claims, id)
                IN  verify(id, claims[last].text, st.evidence_map[id], llm_results[last])]]

RECURSIVE SumOver(_, _)
SumOver(f, S) ==
    IF S = {} THEN 0
    ELSE LET k == CHOOSE k \in S : TRUE IN f[k] + SumOver(f, S \ {k})

(* _check_escalation past its tier test: the scores and the router's verdict *)
EscalationUpdate(st) ==
    LET verifications == Get(st, "verification_results", EmptyDict)
        total_verifications == Cardinality(DOMAIN verifications)
        problematic_count ==
            Cardinality({id \in DOMAIN verifications :
                            \/ verifications[id].contradiction_score > 50
                            \/ verifications[id].neutral_score > 70})
        hallucination_score ==
            IF total_verifications = 0 THEN Frac(0, 1)
            ELSE Frac(problematic_count, total_verifications)
        confidence ==
            IF total_verifications = 0 THEN Frac(1, 1)
            ELSE Frac(SumOver([id \in DOMAIN verifications |->
                                  verifications[id].support_score],
                              DOMAIN verifications),
                      100 * total_verifications)
        decision == should_escalate(Get(st, "raw_llm_response", <<>>),
                                    hallucination_score, confidence)
    IN  [should_escalate              |-> decision[1],
         escalation_reason            |-> decision[2],
         hallucination_score_detected |-> hallucination_score,
         confidence_detected          |-> confidence,
         force_llm_tier               |-> decision[1]]

_check_escalation_uncapped(st) == EscalationUpdate(st)

_check_escalation(st) ==
    LET llm_metadata == Get(st, "llm_metadata", EmptyDict)
        current_tier == Get(llm_metadata, "tier", "slm")
    IN  IF current_tier = "llm"
        THEN [should_escalate   |-> FALSE,
              escalation_reason |-> "Already using LLM tier"]
        ELSE EscalationUpdate(st)

_route_by_force_flag(st) ==
    IF Get(st, "force_llm_tier", FALSE) THEN "escalate_to_llm" ELSE "proceed"

_route_by_escalation(st) ==
    IF Get(st, "should_escalate", FALSE) THEN "escalate_to_llm" ELSE "proceed"

_apply_policy(st) ==
    LET claims == Get(st, "claims", <<>>)
        cached_claims == Get(st, "cached_claims", EmptyDict)
        verification_results == Get(st, "verification_results", EmptyDict)
        evidence_map == Get(st, "evidence_map", EmptyDict)
        one(claim) ==
            IF claim.id \in DOMAIN cached_claims
            THEN LET cached == cached_claims[claim.id]
                 IN  Decision(claim.id, cached.action, claim.text,
                              cached.corrected_claim, cached.evidence_urls,
                              cached.confidence, "From cache")
            ELSE LET evidence == Get(evidence_map, claim.id, <<>>)
                     verification ==
                         IF claim.id \in DOMAIN verification_results
                         THEN verification_results[claim.id]
                         ELSE VerificationResult(claim.id, 0, 0, 100, 0, evidence)
                 IN  decide(claim, verification, evidence)
    IN  [decisions |-> [i \in DOMAIN claims |-> one(claims[i])]]

(* a text as the sequence of its sentences, each as written *)
RenderText(text) == [i \in DOMAIN text |-> JoinWords(text[i].words, text[i].sep)]

Corrects(decision) ==
    decision.action = "CORRECT" /\ decision.corrected_claim \notin {NoneStr, ""}

RECURSIVE ApplyCorrections(_, _)
ApplyCorrections(answer, decisions) ==
    IF decisions = <<>> THEN answer
    ELSE LET d == decisions[1]
             replaced ==
                 IF Corrects(d)
                 THEN [i \in DOMAIN answer |->
                          IF answer[i] = d.original_claim
                          THEN d.corrected_claim \o " [CORRECTED]"
                          ELSE answer[i]]
                 ELSE answer
         IN  ApplyCorrections(replaced, Tail(decisions))

RECURSIVE Modifications(_)
Modifications(decisions) ==
    IF decisions = <<>> THEN <<>>
    ELSE LET d == decisions[1]
             entry ==
                 IF Corrects(d)
                 THEN <<[type      |-> "correction",
                         original  |-> d.original_claim,
                         corrected |-> d.corrected_claim,
                         evidence  |-> SubSeq(d.evidence_urls, 1, Min(3, Len(d.evidence_urls)))]>>
                 ELSE IF d.action = "ABSTAIN"
                 THEN <<[type   |-> "uncertainty",
                         claim  |-> d.original_claim,
                         reason |-> "Insufficient evidence"]>>
                 ELSE IF d.action = "FLAG_FOR_HUMAN"
                 THEN <<[type   |-> "flagged",
                         claim  |-> d.original_claim,
                         reason |-> d.reasoning]>>
                 ELSE <<>>
         IN  entry \o Modifications(Tail(decisions))
CountAction_by_id(decisions, actions) ==
    Cardinality({decisions[i].claim_id :
                    i \in {j \in DOMAIN decisions : decisions[j].action \in actions}})

CountAction(decisions, actions) ==
    Cardinality({i \in DOMAIN decisions : decisions[i].action \in actions})

_assemble_answer(st) ==
    LET decisions    == Get(st, "decisions", <<>>)
        raw          == Get(st, "raw_llm_response", <<>>)
        total_claims == Len(decisions)
        problematic  == CountAction(decisions, {"CORRECT", "FLAG_FOR_HUMAN"})
        hallucination_score ==
            IF total_claims # 0 THEN Frac(problematic, total_claims) ELSE Frac(0, 1)
    IN  [final_answer |->
            [verified_answer     |-> ApplyCorrections(RenderText(raw), decisions),
             original_answer     |-> RenderText(raw),
             modifications       |-> Modifications(decisions),
             hallucination_score |-> hallucination_score,
             confidence          |-> Frac(hallucination_score[2] - hallucination_score[1],
                                          hallucination_score[2]),
             claim_breakdown     |->
                 [total_claims |-> total_claims,
                  verified     |-> CountAction(decisions, {"ACCEPT"}),
                  corrected    |-> CountAction(decisions, {"CORRECT"}),
                  abstained    |-> CountAction(decisions, {"ABSTAIN"}),
                  flagged      |-> CountAction(decisions, {"FLAG_FOR_HUMAN"})]]]

StorePositions_all(st) == DOMAIN Get(st, "decisions", <<>>)

(* the positions of the decisions _update_memory stores *)
StorePositions(st) ==
    LET decisions == Get(st, "decisions", <<>>)
    IN  {i \in DOMAIN decisions :
            decisions[i].claim_id \notin DOMAIN Get(st, "cached_claims", EmptyDict)}

DecisionPayload_without_urls(d) ==
    Payload(d.action, d.corrected_claim, <<>>, d.confidence)

DecisionPayload(d) ==
    Payload(d.action, d.corrected_claim, d.evidence_urls, d.confidence)

(* _update_memory on the mirror and on the table, from decision i on *)
RECURSIVE MirrorAfter(_, _, _)
MirrorAfter(mem, st, i) ==
    IF i > Len(Get(st, "decisions", <<>>)) THEN mem
    ELSE LET d == st.decisions[i]
         IN  MirrorAfter(IF i \in StorePositions(st)
                         THEN StoreInMemory(mem, d.original_claim, DecisionPayload(d))
                         ELSE mem,
                         st, i + 1)

RECURSIVE TableAfter(_, _, _, _)
TableAfter(tbl, st, written, i) ==
    IF i > Len(Get(st, "decisions", <<>>)) THEN tbl
    ELSE LET d == st.decisions[i]
         IN  TableAfter(IF i \in StorePositions(st)
                        THEN StoreInTable(tbl, d.original_claim, DecisionPayload(d), written[i])
                        ELSE tbl,
                        st, written, i + 1)

-----------------------------------------------------------------------------
(* HalluShieldPipeline.verify: the driver, one action per node *)

_build_workflow_without_update(node, st) ==
    CASE node = "call_llm"          -> "extract_claims"
      [] node = "extract_claims"    -> "check_memory"
      [] node = "check_memory"      ->
             IF _route_by_cache(st) = "has_new_claims"
             THEN "retrieve_evidence" ELSE "check_escalation"
      [] node = "retrieve_evidence" -> "verify_claims"
      [] node = "verify_claims"     -> "check_escalation"
      [] node = "check_escalation"  ->
             IF _route_by_escalation(st) = "escalate_to_llm"
             THEN "call_llm" ELSE "apply_policy"
      [] node = "apply_policy"      -> "assemble_answer"
      [] OTHER                      -> "done"

(* _build_workflow: the node that follows `node` once it has updated the state
   to st; "done" is END *)
_build_workflow(node, st) ==
    CASE node = "call_llm"          -> "extract_claims"
      [] node = "extract_claims"    -> "check_memory"
      [] node = "check_memory"      ->
             IF _route_by_cache(st) = "has_new_claims"
             THEN "retrieve_evidence" ELSE "check_escalation"
      [] node = "retrieve_evidence" -> "verify_claims"
      [] node = "verify_claims"     -> "check_escalation"
      [] node = "check_escalation"  ->
             IF _route_by_escalation(st) = "escalate_to_llm"
             THEN "call_llm" ELSE "apply_policy"
      [] node = "apply_policy"      -> "assemble_answer"
      [] node = "assemble_answer"   -> "update_memory"
      [] OTHER                      -> "done"

(* the sequential fallback of verify, used when langgraph is not installed *)
SequentialDriver(node, st) ==
    CASE node = "call_llm"          -> "extract_claims"
      [] node = "extract_claims"    -> "check_memory"
      [] node = "check_memory"      ->
             IF _route_by_cache(st) = "has_new_claims"
             THEN "retrieve_evidence" ELSE "apply_policy"
      [] node = "retrieve_evidence" -> "verify_claims"
      [] node = "verify_claims"     -> "apply_policy"
      [] node = "apply_policy"      -> "assemble_answer"
      [] node = "assemble_answer"   -> "update_memory"
      [] OTHER                      -> "done"

NextNode(node, st) ==
    IF graph THEN _build_workflow(node, st) ELSE SequentialDriver(node, st)

TextsAt(claims, positions) == {claims[i].text : i \in positions}

Step(node) == trace' = Append(trace, node)

Raise(what) ==
    /\ pc' = "raised"
    /\ failed' = what
    /\ state' = state

Init ==
    /\ pc = "idle"
    /\ state = EmptyDict
    /\ graph \in BOOLEAN
    /\ enabled \in BOOLEAN
    /\ in_memory = EmptyDict
    /\ table = EmptyDict
    /\ trace = <<>>
    /\ gen_tiers = <<>>
    /\ hits = {}
    /\ retrieve_calls = {}
    /\ verify_calls = {}
    /\ store_calls = {}
    /\ failed = "none"
    /\ decided = EmptyDict
    /\ stored = EmptyDict

StartRequest ==
    /\ pc \in {"idle", "done", "raised"}
    /\ pc' = "call_llm"
    /\ state' = [query |-> "q", user_id |-> NoneStr, errors |-> <<>>]
    /\ trace' = <<>>
    /\ gen_tiers' = <<>>
    /\ hits' = {}
    /\ retrieve_calls' = {}
    /\ verify_calls' = {}
    /\ store_calls' = {}
    /\ failed' = "none"
    /\ UNCHANGED <<graph, in_memory, table, enabled, decided, stored>>

(* _call_llm when the providers answer with one of `outcomes` *)
CallLlmFrom(outcomes) ==
    /\ pc = "call_llm"
    /\ Step("call_llm")
    /\ gen_tiers' = Append(gen_tiers, Tier(state))
    /\ \E first, second \in outcomes :
          LET update == _call_llm(state, first, second)
          IN  IF update = <<>>
              THEN Raise("generation")
              ELSE /\ state' = Update(state, update[1])
                   /\ pc' = NextNode("call_llm", state')
                   /\ failed' = failed
    /\ UNCHANGED <<graph, in_memory, table, enabled, hits, retrieve_calls,
                   verify_calls, store_calls, decided, stored>>

CallLlm == CallLlmFrom(ProviderOutcomes)

ExtractClaims ==
    /\ pc = "extract_claims"
    /\ Step("extract_claims")
    /\ state' = Update(state, _extract_claims(state))
    /\ pc' = NextNode("extract_claims", state')
    /\ UNCHANGED <<graph, in_memory, table, enabled, gen_tiers, hits, retrieve_calls,
                   verify_calls, store_calls, failed, decided, stored>>

(* the sequential driver's else branch: result.setdefault(...) *)
SetDefaults(st) ==
    Update([evidence_map |-> EmptyDict, verification_results |-> EmptyDict], st)

CheckMemory ==
    /\ pc = "check_memory"
    /\ Step("check_memory")
    /\ \E db_ok \in [DOMAIN Get(state, "claims", <<>>) -> IF enabled THEN BOOLEAN ELSE {FALSE}] :
          LET after == Update(state, _check_memory(state, db_ok))
          IN  /\ hits' = hits \cup {after.claims[i].text : i \in
                                        {j \in DOMAIN after.claims :
                                            after.claims[j].id \in DOMAIN after.cached_claims}}
              /\ state' = IF ~graph /\ _route_by_cache(after) = "all_cached"
                          THEN SetDefaults(after) ELSE after
              /\ pc' = NextNode("check_memory", after)
    /\ UNCHANGED <<graph, in_memory, table, enabled, gen_tiers, retrieve_calls,
                   verify_calls, store_calls, failed, decided, stored>>

RetrieveEvidence ==
    /\ pc = "retrieve_evidence"
    /\ Step("retrieve_evidence")
    /\ \/ \E kinds \in [RetrievePositions(state) -> RetrieveKinds] :
             LET results == [i \in RetrievePositions(state) |->
                                RetrieveResult(state.claims[i].text, kinds[i])]
             IN  /\ state' = Update(state, _retrieve_evidence(state, results))
                 /\ retrieve_calls' =
                        retrieve_calls \cup TextsAt(state.claims, RetrievePositions(state))
                 /\ pc' = NextNode("retrieve_evidence", state')
                 /\ failed' = failed
       \/ \E k \in RetrievePositions(state) :
             /\ retrieve_calls' =
                    retrieve_calls \cup
                    TextsAt(state.claims, {i \in RetrievePositions(state) : i <= k})
             /\ Raise("retrieval")
    /\ UNCHANGED <<graph, in_memory, table, enabled, gen_tiers, hits,
                   verify_calls, store_calls, decided, stored>>

VerifyClaims ==
    /\ pc = "verify_claims"
    /\ Step("verify_claims")
    /\ \/ \E llm_results \in [VerifyPositions(state) -> ScorerOutcomes] :
             /\ state' = Update(state, _verify_claims(state, llm_results))
             /\ verify_calls' =
                    verify_calls \cup TextsAt(state.claims, VerifyPositions(state))
             /\ pc' = NextNode("verify_claims", state')
             /\ failed' = failed
       \/ \E k \in VerifyPositions(state) :
             /\ verify_calls' =
                    verify_calls \cup
                    TextsAt(state.claims, {i \in VerifyPositions(state) : i <= k})
             /\ Raise("scorer")
    /\ UNCHANGED <<graph, in_memory, table, enabled, gen_tiers, hits,
                   retrieve_calls, store_calls, decided, stored>>

CheckEscalation ==
    /\ pc = "check_escalation"
    /\ Step("check_escalation")
    /\ state' = Update(state, _check_escalation(state))
    /\ pc' = NextNode("check_escalation", state')
    /\ UNCHANGED <<graph, in_memory, table, enabled, gen_tiers, hits, retrieve_calls,
                   verify_calls, store_calls, failed, decided, stored>>

ApplyPolicy ==
    /\ pc = "apply_policy"
    /\ Step("apply_policy")
    /\ state' = Update(state, _apply_policy(state))
    /\ pc' = NextNode("apply_policy", state')
    /\ UNCHANGED <<graph, in_memory, table, enabled, gen_tiers, hits, retrieve_calls,
                   verify_calls, store_calls, failed, decided, stored>>

AssembleAnswer ==
    /\ pc = "assemble_answer"
    /\ Step("assemble_answer")
    /\ state' = Update(state, _assemble_answer(state))
    /\ pc' = NextNode("assemble_answer", state')
    /\ UNCHANGED <<graph, in_memory, table, enabled, gen_tiers, hits, retrieve_calls,
                   verify_calls, store_calls, failed, decided, stored>>

(* the record of the latest store_verification call for each claim text, once
   _update_memory has run on st *)
LatestStores(known, st) ==
    LET texts == {st.decisions[i].original_claim : i \in StorePositions(st)}
        last(t) == CHOOSE i \in StorePositions(st) :
                      /\ st.decisions[i].original_claim = t
                      /\ \A j \in StorePositions(st) :
                            st.decisions[j].original_claim = t => j <= i
        d(t) == st.decisions[last(t)]
    IN  [t \in (DOMAIN known) \cup texts |->
            IF t \in texts
            THEN Payload(d(t).action, d(t).corrected_claim, d(t).evidence_urls,
                         d(t).confidence)
            ELSE known[t]]

(* the first Decision a completed request produced for each claim text *)
FirstDecisions(known, decisions) ==
    [t \in (DOMAIN known) \cup {decisions[i].original_claim : i \in DOMAIN decisions} |->
        IF t \in DOMAIN known THEN known[t]
        ELSE decisions[CHOOSE i \in DOMAIN decisions :
                          /\ decisions[i].original_claim = t
                          /\ \A j \in DOMAIN decisions :
                                decisions[j].original_claim = t => i <= j]]

UpdateMemory ==
    /\ pc = "update_memory"
    /\ Step("update_memory")
    /\ \E written \in [StorePositions(state) -> IF enabled THEN BOOLEAN ELSE {FALSE}] :
          /\ in_memory' = MirrorAfter(in_memory, state, 1)
          /\ table' = TableAfter(table, state, written, 1)
    /\ store_calls' = store_calls \cup
                         {state.decisions[i].original_claim : i \in StorePositions(state)}
    /\ decided' = FirstDecisions(decided, state.decisions)
    /\ stored' = LatestStores(stored, state)
    /\ state' = Update(state, EmptyDict)
    /\ pc' = NextNode("update_memory", state')
    /\ UNCHANGED <<graph, enabled, gen_tiers, hits, retrieve_calls, verify_calls, failed>>

Next ==
    \/ StartRequest
    \/ CallLlm
    \/ ExtractClaims
    \/ CheckMemory
    \/ RetrieveEvidence
    \/ VerifyClaims
    \/ CheckEscalation
    \/ ApplyPolicy
    \/ AssembleAnswer
    \/ UpdateMemory

Spec == Init /\ [][Next]_vars

-----------------------------------------------------------------------------
(* The pipeline without a delegated scorer: HALLUSHIELD_PROVIDER names no
   provider with a key, so _verify_with_llm returns None for every claim and
   verify takes the heuristic path. *)

VerifyClaimsHeuristic ==
    /\ pc = "verify_claims"
    /\ Step("verify_claims")
    /\ LET llm_results == [i \in VerifyPositions(state) |->
                              [kind |-> "none", verdict |-> vContradicted]]
       IN  state' = Update(state, _verify_claims(state, llm_results))
    /\ verify_calls' = verify_calls \cup TextsAt(state.claims, VerifyPositions(state))
    /\ pc' = NextNode("verify_claims", state')
    /\ UNCHANGED <<graph, in_memory, table, enabled, gen_tiers, hits,
                   retrieve_calls, store_calls, failed, decided, stored>>

NextHeuristic ==
    \/ StartRequest
    \/ CallLlm
    \/ ExtractClaims
    \/ CheckMemory
    \/ RetrieveEvidence
    \/ VerifyClaimsHeuristic
    \/ CheckEscalation
    \/ ApplyPolicy
    \/ AssembleAnswer
    \/ UpdateMemory

SpecHeuristic == Init /\ [][NextHeuristic]_vars

-----------------------------------------------------------------------------
(* The escalation check on its own: a request that is about to run
   check_escalation on a numbered list of n one-word claims ("1. 2. ..."), all
   uncached and scored by the delegated scorer, followed by nothing, by a
   greeting or by a hedging sentence. *)

EscVerdicts ==
    << [support_score |-> 100, contradiction_score |-> 0,  neutral_score |-> 0,  confidence |-> 100],
       [support_score |-> 25,  contradiction_score |-> 5,  neutral_score |-> 70, confidence |-> 50],
       [support_score |-> 0,   contradiction_score |-> 50, neutral_score |-> 50, confidence |-> 50],
       [support_score |-> 25,  contradiction_score |-> 0,  neutral_score |-> 75, confidence |-> 50],
       [support_score |-> 0,   contradiction_score |-> 80, neutral_score |-> 20, confidence |-> 80] >>

EscTails == { <<>>, <<sHello>>, <<sNotSure>> }

NumberedList(n) == [k \in 1..n |-> Sentence(<<Numeral(k)>>, " ")]

(* the verdict of claim k when counts[j] claims in a row get verdict j *)
VerdictOf(counts, k) ==
    LET upto(j) == SumSeq(SubSeq(counts, 1, j))
        j == CHOOSE j \in DOMAIN counts : upto(j) >= k /\ upto(j - 1) < k
    IN  EscVerdicts[j]

EscState(counts, tail, tier) ==
    LET n      == SumSeq(counts)
        text   == NumberedList(n) \o tail
        claims == extract(text)
        ids    == {claims[k].id : k \in DOMAIN claims}
        evidence_map == [id \in ids |-> PlaceholderEvidence(claims[LastPos(claims, id)].text)]
        cycle == [raw_llm_response |-> text,
                  llm_metadata     |-> [provider |-> IF tier = "llm" THEN "gemini" ELSE "groq",
                                        tier     |-> tier],
                  claims           |-> claims,
                  cached_claims    |-> EmptyDict]
        scored == [evidence_map |-> evidence_map,
                   verification_results |->
                       [id \in ids |->
                           LET k == LastPos(claims, id)
                           IN  verify(id, claims[k].text, evidence_map[id],
                                      [kind |-> "verdict", verdict |-> VerdictOf(counts, k)])]]
        first == Update([query |-> "q", user_id |-> NoneStr, errors |-> <<>>],
                        IF tier = "llm"
                        THEN EscalationUpdate([raw_llm_response |-> <<>>])
                        ELSE EmptyDict)
    IN  Update(Update(first, cycle), IF n = 0 THEN EmptyDict ELSE scored)

InitEsc ==
    \E counts \in [DOMAIN EscVerdicts -> 0..MaxVerified], tail \in EscTails,
       tier \in {"slm", "llm"} :
        LET n == SumSeq(counts)
            cycle == IF n = 0
                     THEN <<"call_llm", "extract_claims", "check_memory">>
                     ELSE <<"call_llm", "extract_claims", "check_memory",
                            "retrieve_evidence", "verify_claims">>
        IN  /\ n <= MaxVerified
            /\ pc = "check_escalation"
            /\ state = EscState(counts, tail, tier)
            /\ graph = TRUE
            /\ enabled = FALSE
            /\ in_memory = EmptyDict
            /\ table = EmptyDict
            /\ trace = IF tier = "llm"
                       THEN <<"call_llm", "extract_claims", "check_memory",
                              "check_escalation">> \o cycle
                       ELSE cycle
            /\ gen_tiers = IF tier = "llm" THEN <<"slm", "llm">> ELSE <<"slm">>
            /\ hits = {}
            /\ retrieve_calls = {state.claims[k].text : k \in DOMAIN state.claims}
            /\ verify_calls = retrieve_calls
            /\ store_calls = {}
            /\ failed = "none"
            /\ decided = EmptyDict
            /\ stored = EmptyDict

NextEsc == CheckEscalation

SpecEsc == InitEsc /\ [][NextEsc]_vars

-----------------------------------------------------------------------------
(* Properties *)

LastNode == IF trace = <<>> THEN "none" ELSE trace[Len(trace)]

Count(seq, x) == Cardinality({i \in DOMAIN seq : seq[i] = x})

CurrentTier == Get(Get(state, "llm_metadata", EmptyDict), "tier", "slm")

Escalated == Len(gen_tiers) = 2

HasSentence(text, s) == \E i \in DOMAIN text : text[i] = s

ClaimIds(st) == {st.claims[i].id : i \in DOMAIN st.claims}

(* the traces of an slm-tier cycle that ends with its escalation decision *)
SlmCycles ==
    { <<"call_llm", "extract_claims", "check_memory", "check_escalation">>,
      <<"call_llm", "extract_claims", "check_memory", "retrieve_evidence",
        "verify_claims", "check_escalation">> }

(* C1: whenever check_escalation has just run on a request whose generation
   tier is llm, it left should_escalate = FALSE, whatever the raw text and the
   verification scores are. *)
C1_EscalationCap ==
    (LastNode = "check_escalation" /\ CurrentTier = "llm")
        => state.should_escalate = FALSE

(* an llm-tier check that ran on a hedging answer with a contradicted claim *)
C1_Witness ==
    /\ LastNode = "check_escalation"
    /\ CurrentTier = "llm"
    /\ HasSentence(state.raw_llm_response, sNotSure)
    /\ \E id \in DOMAIN Get(state, "verification_results", EmptyDict) :
          state.verification_results[id].contradiction_score > 50

(* C2: a request calls generation at most twice, first at slm and then at llm
   tier, takes the edge check_escalation -> call_llm at most once, and every
   second generation comes right after a complete slm-tier cycle whose
   escalation decision was should_escalate = TRUE. *)
C2_OneEscalation ==
    /\ Len(gen_tiers) <= 2
    /\ Len(gen_tiers) >= 1 => gen_tiers[1] = "slm"
    /\ Len(gen_tiers) = 2 => gen_tiers[2] = "llm"
    /\ Cardinality({i \in 1..(Len(trace) - 1) :
                        trace[i] = "check_escalation" /\ trace[i + 1] = "call_llm"}) <= 1
    /\ \A k \in 2..Len(trace) :
          trace[k] = "call_llm" => SubSeq(trace, 1, k - 1) \in SlmCycles
    /\ (pc = "call_llm" /\ trace # <<>>)
          => (trace \in SlmCycles /\ state.should_escalate /\ CurrentTier = "slm")

(* a request that escalated and finished *)
C2_Witness == pc = "done" /\ Escalated /\ Count(trace, "call_llm") = 2

(* C3: no failure of an external collaborator ends a request with an
   exception: the request finishes with a final answer and the failure is in
   its errors list. *)
C3_NoFatalFailure ==
    /\ pc # "raised"
    /\ pc = "done" => "final_answer" \in DOMAIN state
    /\ (pc = "done" /\ failed # "none") => state.errors # <<>>

(* C4: within a run, no claim text for which check_claim returned a record is
   passed to retrieve or to the scorer. *)
C4_CachedNeverRetrieved ==
    /\ hits \cap retrieve_calls = {}
    /\ hits \cap verify_calls = {}

(* an escalated run that had cache hits and retrieved and scored other claims *)
C4_Witness ==
    /\ pc = "done"
    /\ Escalated
    /\ hits # {}
    /\ retrieve_calls # {}
    /\ verify_calls # {}

(* C5, as claimed: a claim text that an earlier completed request decided gets
   a Decision equal to that first one, with no retrieve and no scorer call. *)
C5_SameDecision ==
    pc = "update_memory" =>
        \A i \in DOMAIN state.decisions :
            LET d == state.decisions[i]
            IN  d.original_claim \in DOMAIN decided =>
                    /\ d = decided[d.original_claim]
                    /\ d.original_claim \notin retrieve_calls
                    /\ d.original_claim \notin verify_calls

(* C5, amended: the Decision repeats the first one's claim_id, action,
   original_claim, corrected_claim, evidence_urls and confidence, its reasoning
   is "From cache", and there is no retrieve and no scorer call for the text. *)
C5_SameDecisionFromCache ==
    pc = "update_memory" =>
        \A i \in DOMAIN state.decisions :
            LET d == state.decisions[i]
            IN  d.original_claim \in DOMAIN decided =>
                    /\ d = [decided[d.original_claim] EXCEPT !.reasoning = "From cache"]
                    /\ d.original_claim \notin retrieve_calls
                    /\ d.original_claim \notin verify_calls

(* a request that repeats a claim an earlier request flagged with two sources *)
C5_Witness ==
    /\ pc = "update_memory"
    /\ \E i \in DOMAIN state.decisions :
          /\ state.decisions[i].original_claim \in DOMAIN decided
          /\ decided[state.decisions[i].original_claim].action = "FLAG_FOR_HUMAN"
          /\ Len(state.decisions[i].evidence_urls) = 2

(* C6: a request whose external calls all return reaches "done" in at most 15
   node runs: the position of a request in flight is always a node of the
   workflow (each node's action is guarded by that position alone), every run
   adds one node to the trace, the only way out other than "done" is an
   external call that raised, and a request that is done ran update_memory
   exactly once, as its last node, right after its one assemble_answer. *)
C6_Terminates ==
    /\ Len(trace) <= 15
    /\ pc \in {"idle", "done", "raised", "call_llm", "extract_claims", "check_memory",
               "retrieve_evidence", "verify_claims", "check_escalation",
               "apply_policy", "assemble_answer", "update_memory"}
    /\ pc = "raised" => failed # "none"
    /\ pc = "done" =>
          /\ failed = "none"
          /\ Count(trace, "update_memory") = 1
          /\ Count(trace, "assemble_answer") = 1
          /\ Len(trace) >= 2
          /\ trace[Len(trace)] = "update_memory"
          /\ trace[Len(trace) - 1] = "assemble_answer"

(* a finished request that went through the escalation loop *)
C6_Witness == pc = "done" /\ Escalated /\ Len(trace) = 15

AllCached(st) ==
    \A i \in DOMAIN st.claims : st.claims[i].id \in DOMAIN st.cached_claims

(* C7: through the graph, when every extracted claim had a cache hit the node
   after check_memory is check_escalation, and that check, at slm tier, uses
   hallucination_score 0 and confidence 1. *)
C7_AllCachedSkipsToEscalation ==
    /\ (graph /\ LastNode = "check_memory" /\ AllCached(state))
          => pc = "check_escalation"
    /\ (graph /\ LastNode = "check_escalation" /\ CurrentTier = "slm"
          /\ AllCached(state))
          => /\ trace[Len(trace) - 1] = "check_memory"
             /\ state.hallucination_score_detected = Frac(0, 1)
             /\ state.confidence_detected = Frac(1, 1)

(* C8: at "done" after an escalation, the evidence map and the verification
   results hold entries of claims of the llm-tier output only. *)
C8_SlmResultsDiscarded ==
    (pc = "done" /\ Escalated) =>
        /\ DOMAIN Get(state, "evidence_map", EmptyDict) \subseteq ClaimIds(state)
        /\ DOMAIN Get(state, "verification_results", EmptyDict) \subseteq ClaimIds(state)
        /\ Len(state.decisions) = Len(state.claims)
        /\ \A i \in DOMAIN state.decisions :
              state.decisions[i].original_claim = state.claims[i].text

PolicyDerived(d) == d.reasoning # "From cache"

(* C9: once update_memory has run, every decision that came from the policy
   has its record in the cache under its claim text, store was called for
   exactly those texts, and the record of every decision taken from the cache
   is the one the lookup returned. *)
C9_StoresPolicyDecisions ==
    pc = "done" =>
        /\ store_calls = {state.decisions[i].original_claim :
                             i \in {j \in DOMAIN state.decisions :
                                       PolicyDerived(state.decisions[j])}}
        /\ \A i \in DOMAIN state.decisions :
              LET d == state.decisions[i]
              IN  \A db_ok \in BOOLEAN :
                    IF PolicyDerived(d)
                    THEN check_claim(d.original_claim, db_ok) =
                            <<Payload(d.action, d.corrected_claim, d.evidence_urls,
                                      d.confidence)>>
                    ELSE /\ d.original_claim \notin store_calls
                         /\ check_claim(d.original_claim, db_ok) =
                                <<state.cached_claims[d.claim_id]>>

(* a finished request with a stored decision, a cached decision and a durable
   write that failed *)
C9_Witness ==
    /\ pc = "done"
    /\ enabled
    /\ \E i, j \in DOMAIN state.decisions :
          /\ PolicyDerived(state.decisions[i])
          /\ ~PolicyDerived(state.decisions[j])
          /\ state.decisions[i].original_claim \notin DOMAIN table

(* C10: at slm tier the decision of check_escalation is the first rule that
   applies: a hedging sentence; more than 3 in 10 verification results with
   contradiction > 0.5 or neutral > 0.7; a mean support below 0.5; fewer than
   10 words; and otherwise no escalation. *)
C10_FirstTrueRule ==
    (LastNode = "check_escalation" /\ CurrentTier = "slm") =>
        LET results == Get(state, "verification_results", EmptyDict)
            total   == Cardinality(DOMAIN results)
            bad     == Cardinality({id \in DOMAIN results :
                                      \/ results[id].contradiction_score > 50
                                      \/ results[id].neutral_score > 70})
            support == SumOver([id \in DOMAIN results |-> results[id].support_score],
                               DOMAIN results)
            words   == Len(FlatWords(state.raw_llm_response))
            expected ==
                IF HasSentence(state.raw_llm_response, sNotSure)
                THEN <<TRUE, "SLM expressed uncertainty">>
                ELSE IF total > 0 /\ 10 * bad > 3 * total
                THEN <<TRUE, "High hallucination rate">>
                ELSE IF total > 0 /\ 2 * support < 100 * total
                THEN <<TRUE, "Low verification confidence">>
                ELSE IF words < 10
                THEN <<TRUE, "Response too brief, may lack detail">>
                ELSE <<FALSE, "No escalation needed">>
        IN  /\ state.should_escalate = expected[1]
            /\ state.escalation_reason = expected[2]
            /\ FracEq(state.hallucination_score_detected,
                      IF total = 0 THEN Frac(0, 1) ELSE Frac(bad, total))
            /\ FracEq(state.confidence_detected,
                      IF total = 0 THEN Frac(1, 1) ELSE Frac(support, 100 * total))

(* ten results, three of them bad, mean support exactly 0.5, ten words: every
   threshold is met exactly and the check does not escalate *)
C10_Witness ==
    /\ LastNode = "check_escalation"
    /\ CurrentTier = "slm"
    /\ Cardinality(DOMAIN Get(state, "verification_results", EmptyDict)) = 10
    /\ FracEq(state.hallucination_score_detected, Frac(3, 10))
    /\ FracEq(state.confidence_detected, Frac(1, 2))
    /\ Len(FlatWords(state.raw_llm_response)) = 10
    /\ state.should_escalate = FALSE

(* C12: in the assembled answer hallucination_score is (CORRECT decisions +
   FLAG_FOR_HUMAN decisions) / decisions, confidence is 1 - hallucination_score
   and the four counts of claim_breakdown add up to total_claims, the number
   of decisions; with no claims the score is 0, the confidence 1 and there
   are no modifications. *)
C12_AnswerScores ==
    (LastNode \in {"assemble_answer", "update_memory"}) =>
        LET fa        == state.final_answer
            decisions == state.decisions
            total     == Len(decisions)
            with(a)   == Cardinality({i \in DOMAIN decisions : decisions[i].action = a})
            hs        == fa.hallucination_score
            conf      == fa.confidence
            cb        == fa.claim_breakdown
        IN  /\ FracEq(hs, IF total = 0 THEN Frac(0, 1)
                          ELSE Frac(with("CORRECT") + with("FLAG_FOR_HUMAN"), total))
            /\ hs[1] * conf[2] + conf[1] * hs[2] = hs[2] * conf[2]
            /\ cb.total_claims = total
            /\ cb.verified + cb.corrected + cb.abstained + cb.flagged = total
            /\ cb.verified = with("ACCEPT") /\ cb.corrected = with("CORRECT")
            /\ cb.abstained = with("ABSTAIN") /\ cb.flagged = with("FLAG_FOR_HUMAN")
            /\ state.claims = <<>> =>
                  /\ FracEq(hs, Frac(0, 1))
                  /\ FracEq(conf, Frac(1, 1))
                  /\ fa.modifications = <<>>

(* an answer with the same claim twice, contradicted both times, and a third
   sentence that is no claim: score 1, confidence 0 *)
C12_Witness ==
    /\ pc = "done"
    /\ Len(state.decisions) = 2
    /\ state.decisions[1].claim_id = state.decisions[2].claim_id
    /\ state.decisions[1].action = "CORRECT"
    /\ FracEq(state.final_answer.hallucination_score, Frac(1, 1))

EntryType(action) ==
    CASE action = "CORRECT"        -> "correction"
      [] action = "ABSTAIN"        -> "uncertainty"
      [] action = "FLAG_FOR_HUMAN" -> "flagged"
      [] OTHER                     -> "none"

(* C13: the modifications list has one entry per decision that is not ACCEPT,
   in the order of the decisions, of type correction / uncertainty / flagged
   for CORRECT / ABSTAIN / FLAG_FOR_HUMAN; a CORRECT decision without a
   corrected_claim leaves the answer text as it was and still has its entry. *)
C13_OneEntryPerDecision ==
    (LastNode \in {"assemble_answer", "update_memory"}) =>
        LET fa         == state.final_answer
            NotAccept(d) == d.action # "ACCEPT"
            audited    == SelectSeq(state.decisions, NotAccept)
        IN  /\ Len(fa.modifications) = Len(audited)
            /\ \A i \in DOMAIN audited :
                  fa.modifications[i].type = EntryType(audited[i].action)
            /\ (\A i \in DOMAIN state.decisions :
                    state.decisions[i].corrected_claim = NoneStr)
                  => fa.verified_answer = fa.original_answer

(* C23: once verify_claims has run, the verification results have an entry
   for every claim without a cache hit; for a claim whose retrieval returned
   no evidence the entry is support 0, contradiction 0, neutral 1, agreement
   0; and the escalation check that follows counts every such claim. *)
C23_EveryUncachedClaimScored ==
    /\ (LastNode = "verify_claims" /\ pc # "raised") =>
          \A i \in DOMAIN state.claims :
              LET id == state.claims[i].id
              IN  id \notin DOMAIN state.cached_claims =>
                     /\ id \in DOMAIN state.verification_results
                     /\ state.evidence_map[id] = <<>> =>
                           state.verification_results[id] =
                               VerificationResult(id, 0, 0, 100, 0, <<>>)
    /\ (Len(trace) >= 2 /\ LastNode = "check_escalation"
           /\ trace[Len(trace) - 1] = "verify_claims" /\ CurrentTier = "slm") =>
          state.hallucination_score_detected[2] =
              Cardinality(ClaimIds(state) \ DOMAIN state.cached_claims)

(* C24: with either driver apply_policy runs right after a check_escalation
   that decided not to escalate, so the sequential driver applies the policy
   only to a state from which the graph would proceed too, and every finished
   request has run check_escalation. *)
C24_SequentialFollowsGraph ==
    /\ pc = "apply_policy" =>
          /\ LastNode = "check_escalation"
          /\ Get(state, "should_escalate", TRUE) = FALSE
          /\ _route_by_escalation(Update(state, _check_escalation(state))) = "proceed"
    /\ pc = "done" => Count(trace, "check_escalation") >= 1

(* C25: starting from an empty cache that only the pipeline writes, every
   decision and every cached record has no corrected_claim, so the assembled
   verified_answer is the original_answer and no modifications entry is a
   correction, also when claim_breakdown counts corrected claims. *)
C25_AnswerNeverRewritten ==
    /\ \A t \in DOMAIN in_memory : in_memory[t].corrected_claim = NoneStr
    /\ \A t \in DOMAIN table : table[t].corrected_claim = NoneStr
    /\ (LastNode \in {"assemble_answer", "update_memory"}) =>
          LET fa == state.final_answer
          IN  /\ \A i \in DOMAIN state.decisions :
                    state.decisions[i].corrected_claim = NoneStr
              /\ fa.verified_answer = fa.original_answer
              /\ fa.original_answer = RenderText(state.raw_llm_response)
              /\ \A i \in DOMAIN fa.modifications :
                    fa.modifications[i].type # "correction"

(* a finished request with a CORRECT decision replayed from the cache and a
   CORRECT decision of the policy: two corrected claims, the answer unchanged *)
C25_Witness ==
    /\ pc = "done"
    /\ state.final_answer.claim_breakdown.corrected = 2
    /\ \E i, j \in DOMAIN state.decisions :
          /\ state.decisions[i].action = "CORRECT"
          /\ state.decisions[i].reasoning = "From cache"
          /\ state.decisions[j].action = "CORRECT"
          /\ state.decisions[j].reasoning # "From cache"
    /\ state.final_answer.verified_answer = state.final_answer.original_answer

(* C26: at "done" the claims are those extracted from the generation output
   the request ended with, there is one decision per claim, in claim order,
   with the claim's id and text, total_claims is the number of claims, and
   every action is one of the four, from the policy or from the cache. *)
C26_OneDecisionPerClaim ==
    pc = "done" =>
        /\ state.claims = extract(state.raw_llm_response)
        /\ Len(state.decisions) = Len(state.claims)
        /\ \A i \in DOMAIN state.decisions :
              /\ state.decisions[i].claim_id = state.claims[i].id
              /\ state.decisions[i].original_claim = state.claims[i].text
              /\ state.decisions[i].action \in
                    {"ACCEPT", "CORRECT", "ABSTAIN", "FLAG_FOR_HUMAN"}
        /\ state.final_answer.claim_breakdown.total_claims = Len(state.claims)

(* an escalated request whose llm-tier answer has two claims, the first
   decided by the cache and the second by the policy *)
C26_Witness ==
    /\ pc = "done"
    /\ Escalated
    /\ Len(state.decisions) = 2
    /\ state.decisions[1].reasoning = "From cache"
    /\ state.decisions[2].reasoning # "From cache"
    /\ state.decisions[1].claim_id # state.decisions[2].claim_id

(* the number of times the request went from check_escalation back to call_llm *)
Escalations ==
    Cardinality({i \in 1..(Len(trace) - 1) :
                    trace[i] = "check_escalation" /\ trace[i + 1] = "call_llm"})

(* C27: when a request finishes through the graph, should_escalate is FALSE in
   its final state, the tier in llm_metadata is llm exactly when the request
   escalated once, and otherwise it is slm and the request made no llm-tier
   generation call. *)
C27_FinalTier ==
    (graph /\ pc = "done") =>
        /\ state.should_escalate = FALSE
        /\ state.llm_metadata.tier \in {"slm", "llm"}
        /\ state.llm_metadata.tier = "llm" <=> Escalations = 1
        /\ state.llm_metadata.tier = "slm" =>
              (Escalations = 0 /\ \A i \in DOMAIN gen_tiers : gen_tiers[i] # "llm")

(* a request that hedged at slm tier, escalated, and finished on an llm-tier
   answer that hedges again *)
C27_Witness ==
    /\ graph
    /\ pc = "done"
    /\ Escalations = 1
    /\ state.llm_metadata.tier = "llm"
    /\ state.escalation_reason = "Already using LLM tier"
    /\ HasSentence(state.raw_llm_response, sNotSure)

(* C28: two claims of one answer whose sentences are the same once whitespace
   runs are collapsed have one text and one id, and once the policy has been
   applied their decisions have the same action, confidence and evidence,
   both from the cache or both from the policy. *)
C28_SameTextSameAction ==
    (LastNode \in {"apply_policy", "assemble_answer", "update_memory"}) =>
        \A i, j \in DOMAIN state.claims :
            (state.raw_llm_response[state.claims[i].position + 1].words =
             state.raw_llm_response[state.claims[j].position + 1].words) =>
                /\ state.claims[i].text = state.claims[j].text
                /\ state.claims[i].id = state.claims[j].id
                /\ state.decisions[i].action = state.decisions[j].action
                /\ state.decisions[i] = state.decisions[j]

(* an answer that states one claim twice, with different spacing, decided by
   the policy on two sources *)
C28_Witness ==
    /\ pc = "done"
    /\ Len(state.claims) = 2
    /\ state.claims[1].source_sentence # state.claims[2].source_sentence
    /\ state.claims[1].id = state.claims[2].id
    /\ state.decisions[1].reasoning # "From cache"
    /\ state.decisions[1].action = "FLAG_FOR_HUMAN"
    /\ state.decisions[2].action = "FLAG_FOR_HUMAN"

(* C29: without a delegated scorer no decision is CORRECT, a decision of the
   policy is FLAG_FOR_HUMAN only for a claim with at least 2 evidence items
   and a support_score from 0.5 to 0.85, with contradiction_score 0, and the
   corrected count of every answer is 0. *)
C29_HeuristicNeverCorrects ==
    (LastNode \in {"apply_policy", "assemble_answer", "update_memory"}) =>
        /\ \A i \in DOMAIN state.decisions :
              LET d == state.decisions[i]
              IN  /\ d.action # "CORRECT"
                  /\ (PolicyDerived(d) /\ d.action = "FLAG_FOR_HUMAN") =>
                        /\ d.claim_id \in DOMAIN state.verification_results
                        /\ LET v == state.verification_results[d.claim_id]
                           IN  /\ v.contradiction_score = 0
                               /\ v.source_count >= 2
                               /\ Len(d.evidence_urls) >= 2
                               /\ 50 <= v.support_score /\ v.support_score <= 85
        /\ \A id \in DOMAIN Get(state, "verification_results", EmptyDict) :
              state.verification_results[id].contradiction_score = 0
        /\ "final_answer" \in DOMAIN state =>
              state.final_answer.claim_breakdown.corrected = 0

(* a claim with half of its tokens in one of two reference items: support 0.6,
   flagged, next to a claim with no evidence, on which the policy abstains *)
C29_Witness ==
    /\ pc = "done"
    /\ Len(state.decisions) = 2
    /\ state.decisions[1].action = "ABSTAIN"
    /\ state.decisions[1].evidence_urls = <<>>
    /\ state.decisions[2].action = "FLAG_FOR_HUMAN"
    /\ PolicyDerived(state.decisions[2])
    /\ state.verification_results[state.decisions[2].claim_id].support_score = 60
    /\ state.final_answer.claim_breakdown.flagged = 1

-----------------------------------------------------------------------------
(* The components on their own: one call of a component on inputs drawn from
   small sets.  pc is the call about to be made or "returned" / "raised";
   state holds the arguments and, after the call, what it returned. *)
ComponentInit ==
    /\ graph = FALSE
    /\ trace = <<>>
    /\ gen_tiers = <<>>
    /\ hits = {}
    /\ retrieve_calls = {}
    /\ verify_calls = {}
    /\ store_calls = {}
    /\ failed = "none"
    /\ decided = EmptyDict

ComponentFrame ==
    UNCHANGED <<graph, trace, gen_tiers, hits, retrieve_calls, verify_calls,
                store_calls, failed, decided>>

NoCache ==
    /\ in_memory = EmptyDict
    /\ table = EmptyDict
    /\ enabled = FALSE
    /\ stored = EmptyDict

CacheFrame == UNCHANGED <<in_memory, table, enabled, stored>>

-----------------------------------------------------------------------------
(* AdaptiveDecisionPolicy.decide on VerificationResults whose scores sit on
   and around the thresholds of the rules *)

PolicyInputs ==
    [claim_id            : {"md5:Paris is in France."},
     support_score       : {0, 85, 86, 100},
     contradiction_score : {0, 9, 10, 70, 71},
     neutral_score       : {0},
     evidence_agreement  : {0, 49, 50, 100},
     source_count        : {0, 1, 2, 3},
     evidence_ids        : {<<>>}]

InitPolicy ==
    /\ pc = "decide"
    /\ \E v \in PolicyInputs :
          state = [claim        |-> [id |-> v.claim_id, text |-> "Paris is in France."],
                   verification |-> v,
                   evidence     |-> ReferenceEvidence]
    /\ NoCache
    /\ ComponentInit

Decide ==
    /\ pc = "decide"
    /\ state' = Update(state,
                       [decision |-> decide(state.claim, state.verification, state.evidence)])
    /\ pc' = "returned"
    /\ CacheFrame
    /\ ComponentFrame

NextPolicy == Decide

SpecPolicy == InitPolicy /\ [][NextPolicy]_vars

(* C11: decide returns exactly one of the four actions, the first rule that
   matches: ACCEPT when support > 0.85 and contradiction < 0.1; otherwise
   CORRECT when contradiction > 0.7; otherwise ABSTAIN when source_count < 2
   or evidence_agreement < 0.5; otherwise FLAG_FOR_HUMAN. *)
C11_FirstMatch ==
    (pc = "returned" /\ "decision" \in DOMAIN state) =>
        LET v        == state.verification
            action   == state.decision.action
            accept   == v.support_score > 85 /\ v.contradiction_score < 10
            correct  == v.contradiction_score > 70
            abstain  == v.source_count < 2 \/ v.evidence_agreement < 50
        IN  /\ action \in {"ACCEPT", "CORRECT", "ABSTAIN", "FLAG_FOR_HUMAN"}
            /\ action = "ACCEPT"  <=> accept
            /\ action = "CORRECT" <=> (~accept /\ correct)
            /\ action = "ABSTAIN" <=> (~accept /\ ~correct /\ abstain)
            /\ action = "FLAG_FOR_HUMAN" <=> (~accept /\ ~correct /\ ~abstain)

(* every score exactly on its threshold: no rule but the last applies *)
C11_Witness ==
    /\ pc = "returned"
    /\ "decision" \in DOMAIN state
    /\ state.verification.support_score = 85
    /\ state.verification.contradiction_score = 70
    /\ state.verification.source_count = 2
    /\ state.verification.evidence_agreement = 50
    /\ state.decision.action = "FLAG_FOR_HUMAN"

-----------------------------------------------------------------------------
(* NLIVerifier.verify on its own: one claim, one evidence list, one reply of
   the delegated scorer *)

(* What the delegated scorer does when verify calls it: no provider is
   configured; ainvoke raises (timeout, connection, HTTP error); or it replies
   with a text: no JSON at all, a JSON object, a JSON object inside markdown,
   a JSON array, a JSON object whose scores are not numbers. *)
ScorerReplies ==
    [kind    : {"unconfigured", "exception", "garbage", "object", "wrapped",
                "array", "non_numeric"},
     verdict : {vContradicted}]

(* _parse_json: <<>> is None, else the value json.loads produced *)
_parse_json(reply) ==
    CASE reply.kind = "garbage"     -> <<>>
      [] reply.kind = "array"       -> <<[is_dict |-> FALSE, numeric |-> TRUE,
                                          scores |-> reply.verdict]>>
      [] reply.kind = "non_numeric" -> <<[is_dict |-> TRUE, numeric |-> FALSE,
                                          scores |-> reply.verdict]>>
      [] OTHER                      -> <<[is_dict |-> TRUE, numeric |-> TRUE,
                                          scores |-> reply.verdict]>>

(* _verify_with_llm: it raises what ainvoke raises, returns None when no
   provider is configured, and otherwise returns _parse_json of the reply *)
_verify_with_llm(reply) ==
    CASE reply.kind = "unconfigured" -> [raised |-> FALSE, value |-> <<>>]
      [] reply.kind = "exception"    -> [raised |-> TRUE,  value |-> <<>>]
      [] OTHER                       -> [raised |-> FALSE, value |-> _parse_json(reply)]

(* NLIVerifier.verify as called: <<result>>, or <<>> when the call raised
   (out of _verify_with_llm, or from llm_result.get / float(...) on a value
   that is not a dict of numbers) *)
VerifyCall(claim_id, claim_text, evidence_list, reply) ==
    IF evidence_list = <<>>
    THEN <<verify(claim_id, claim_text, evidence_list, [kind |-> "none"])>>
    ELSE LET llm_result == _verify_with_llm(reply)
         IN  IF llm_result.raised THEN <<>>
             ELSE IF llm_result.value = <<>>
             THEN <<verify(claim_id, claim_text, evidence_list, [kind |-> "none"])>>
             ELSE IF ~llm_result.value[1].is_dict \/ ~llm_result.value[1].numeric
             THEN <<>>
             ELSE <<verify(claim_id, claim_text, evidence_list,
                           [kind |-> "verdict", verdict |-> llm_result.value[1].scores])>>

VerifierClaims == {"Paris is in France.", "The Eiffel Tower was built in 1889.", Numeral(1)}

VerifierEvidence(claim_text) ==
    { <<>>,
      PlaceholderEvidence(claim_text),
      ReferenceEvidence,
      <<ReferenceEvidence[2]>>,
      <<ReferenceEvidence[2], ReferenceEvidence[1]>> }

InitVerifier ==
    /\ pc = "verify"
    /\ \E claim_text \in VerifierClaims, reply \in ScorerReplies :
          \E evidence_list \in VerifierEvidence(claim_text) :
              state = [claim_id      |-> _generate_claim_id(claim_text),
                       claim         |-> claim_text,
                       evidence_list |-> evidence_list,
                       reply         |-> reply]
    /\ NoCache
    /\ ComponentInit

Verify ==
    /\ pc = "verify"
    /\ LET returned == VerifyCall(state.claim_id, state.claim, state.evidence_list,
                                  state.reply)
       IN  IF returned = <<>>
           THEN pc' = "raised" /\ state' = state
           ELSE pc' = "returned" /\ state' = Update(state, [result |-> returned[1]])
    /\ CacheFrame
    /\ ComponentFrame

NextVerifier == Verify

SpecVerifier == InitVerifier /\ [][NextVerifier]_vars

(* the largest number, over the evidence items, of the claim's tokens that
   occur in the item's snippet *)
MostTokensFound(claim_text, evidence_list) ==
    SetMax({Cardinality(ClaimTokens(claim_text) \cap evidence_list[i].snippet) :
               i \in DOMAIN evidence_list})

(* the scorer gave no usable verdict *)
NoVerdict(reply) ==
    reply.kind \in {"unconfigured", "exception", "garbage", "array", "non_numeric"}

(* C14: when the scorer is not configured, its call fails or its reply is not
   a verdict object with numeric scores, verify raises nothing and returns the
   heuristic result for the claim. *)
C14_FallsBackToHeuristic ==
    (pc \in {"returned", "raised"} /\ state.evidence_list # <<>> /\ NoVerdict(state.reply)) =>
        /\ pc = "returned"
        /\ state.result.support_score =
              _heuristic_support(state.claim, state.evidence_list)
        /\ state.result.contradiction_score = 0

(* C19, as claimed: on the heuristic path support_score is 0.2 + 0.8 x the
   largest fraction of the claim's tokens found in one snippet (0 of them when
   the claim has none), within [0.2, 1.0], contradiction_score is 0,
   neutral_score is 1 - support_score and evidence_agreement is support_score. *)
C19_HeuristicScores ==
    (pc = "returned" /\ state.evidence_list # <<>>
        /\ state.reply.kind \in {"unconfigured", "garbage"}) =>
        LET r == state.result
            n == Cardinality(ClaimTokens(state.claim))
        IN  /\ 20 <= r.support_score /\ r.support_score <= 100
            /\ r.contradiction_score = 0
            /\ r.neutral_score = 100 - r.support_score
            /\ r.evidence_agreement = r.support_score
            /\ (r.support_score - 20) * Max(1, n) =
                  80 * MostTokensFound(state.claim, state.evidence_list)

(* C19, amended: as above, except that the support_score of a claim with no
   token of 4 or more characters is 0.3. *)
C19_HeuristicScoresOrDefault ==
    (pc = "returned" /\ state.evidence_list # <<>>
        /\ state.reply.kind \in {"unconfigured", "garbage"}) =>
        LET r == state.result
            n == Cardinality(ClaimTokens(state.claim))
        IN  /\ 20 <= r.support_score /\ r.support_score <= 100
            /\ r.contradiction_score = 0
            /\ r.neutral_score = 100 - r.support_score
            /\ r.evidence_agreement = r.support_score
            /\ r.source_count = Len(state.evidence_list)
            /\ IF n = 0 THEN r.support_score = 30
               ELSE (r.support_score - 20) * n =
                       80 * MostTokensFound(state.claim, state.evidence_list)

(* a claim with four tokens, none of them in the first evidence item and two
   in the second, scored without the delegated scorer: support 0.6 *)
C19_Witness ==
    /\ pc = "returned"
    /\ state.reply.kind = "garbage"
    /\ Len(state.evidence_list) = 2
    /\ Cardinality(ClaimTokens(state.claim)) = 4
    /\ ClaimTokens(state.claim) \cap state.evidence_list[1].snippet = {}
    /\ state.result.support_score = 60

-----------------------------------------------------------------------------
(* EvidenceRetriever.retrieve on its own: one claim, one top_k, one outcome of
   each provider.  Before ranking relevance_score and credibility_score are in
   hundredths; _rank_evidence replaces relevance_score by their product, in
   ten-thousandths. *)

(* The largest top_k given to retrieve in the specification SpecRetriever. *)
MaxTopK == 6

Range0(n) == [i \in 1..n |-> i - 1]

WebPlaceholders_generic_snippet(claim, top_k, first, credibility) ==
    [k \in 1..top_k |->
        Evidence("https://example.com/evidence/" \o ToString(Range0(top_k)[k]),
                 {}, first - Range0(top_k)[k] * 10, credibility)]

(* the placeholder list of _search_web: range(top_k) *)
WebPlaceholders(claim, top_k, first, credibility) ==
    [k \in 1..top_k |->
        Evidence("https://example.com/evidence/" \o ToString(Range0(top_k)[k]),
                 ClaimTokens(claim), first - Range0(top_k)[k] * 10, credibility)]

(* the items of a provider's JSON body: a url or title, and a snippet (the set
   of claim tokens that occur in it, {} when the field is missing or empty) *)
Item(name, snippet, usable) == [name |-> name, snippet |-> snippet, usable |-> usable]

WebBodies ==
    { <<>>,
      <<Item("https://web.example/a", {"paris"}, TRUE)>>,
      <<Item("https://web.example/a", {"paris"}, TRUE),
        Item("", {}, FALSE),
        Item("https://web.example/c", {"france"}, TRUE),
        Item("https://web.example/d", {"paris", "france"}, TRUE)>> }

WikiBodies ==
    { <<>>,
      <<Item("Paris", {"paris", "france"}, TRUE)>>,
      <<Item("Paris", {"paris", "france"}, TRUE),
        Item("France", {}, FALSE),
        Item("Eiffel Tower", {"paris"}, TRUE)>> }

(* What the HTTP call of a provider does. *)
WebOutcomes ==
    [kind : {"no_key", "no_client", "http_error", "malformed"}, body : {<<>>}]
        \cup [kind : {"ok"}, body : WebBodies]

WikiOutcomes ==
    [kind : {"no_client", "http_error", "malformed"}, body : {<<>>}]
        \cup [kind : {"ok"}, body : WikiBodies]

Take(s, n) == SubSeq(s, 1, Min(Max(n, 0), Len(s)))

RECURSIVE KeepUsable(_, _, _)
KeepUsable(items, relevance, credibility) ==
    IF items = <<>> THEN <<>>
    ELSE (IF items[1].usable
          THEN <<Evidence(items[1].name, items[1].snippet, relevance, credibility)>>
          ELSE <<>>)
         \o KeepUsable(Tail(items), relevance, credibility)

(* _search_web: <<list>>, or <<>> when it raised (r.json() on a body that is
   not JSON raises a ValueError, which is no httpx.HTTPError) *)
_search_web(claim, top_k, outcome) ==
    CASE outcome.kind = "no_key"     -> <<WebPlaceholders(claim, top_k, 80, 60)>>
      [] outcome.kind = "no_client"  -> <<WebPlaceholders(claim, top_k, 70, 50)>>
      [] outcome.kind = "http_error" -> <<WebPlaceholders(claim, top_k, 70, 50)>>
      [] outcome.kind = "malformed"  -> <<>>
      [] OTHER -> <<KeepUsable(Take(outcome.body, top_k), 75, 70)>>

WikiUrl(title) == "https://en.wikipedia.org/wiki/" \o title

RECURSIVE WikiEvidence(_)
WikiEvidence(items) ==
    IF items = <<>> THEN <<>>
    ELSE (IF items[1].usable
          THEN <<Evidence(WikiUrl(items[1].name), items[1].snippet, 65, 80)>>
          ELSE <<>>)
         \o WikiEvidence(Tail(items))

(* _search_wikipedia: as _search_web *)
_search_wikipedia(claim, top_k, outcome) ==
    IF top_k <= 0 THEN <<(<<>>)>>
    ELSE CASE outcome.kind = "no_client"  -> <<(<<>>)>>
           [] outcome.kind = "http_error" -> <<(<<>>)>>
           [] outcome.kind = "malformed"  -> <<>>
           [] OTHER -> <<WikiEvidence(Take(outcome.body, top_k))>>

(* sorted(..., reverse=True): stable, larger keys first *)
RECURSIVE InsertByRelevance(_, _)
InsertByRelevance(e, sorted) ==
    IF sorted = <<>> THEN <<e>>
    ELSE IF e.relevance_score > sorted[1].relevance_score
    THEN <<e>> \o sorted
    ELSE <<sorted[1]>> \o InsertByRelevance(e, Tail(sorted))

RECURSIVE SortedByRelevance(_)
SortedByRelevance(evidence) ==
    IF evidence = <<>> THEN <<>>
    ELSE LET n == Len(evidence)
         IN  InsertByRelevance(evidence[n], SortedByRelevance(SubSeq(evidence, 1, n - 1)))

Multiplied(evidence) ==
    [i \in DOMAIN evidence |->
        [evidence[i] EXCEPT !.relevance_score =
            evidence[i].relevance_score * evidence[i].credibility_score]]

_rank_evidence_unsorted(evidence) == Multiplied(evidence)

_rank_evidence(evidence) == SortedByRelevance(Multiplied(evidence))

(* retrieve: [raised, web_results, wiki_results, returned] *)
retrieve(claim, top_k, web_outcome, wiki_outcome) ==
    LET web == _search_web(claim, Min(3, top_k), web_outcome)
    IN  IF web = <<>>
        THEN [raised |-> TRUE, web_results |-> <<>>, wiki_results |-> <<>>,
              wiki_top_k |-> 0, returned |-> <<>>]
        ELSE LET wiki_top_k == Min(2, Max(0, top_k - Len(web[1])))
                 wiki == _search_wikipedia(claim, wiki_top_k, wiki_outcome)
             IN  IF wiki = <<>>
                 THEN [raised |-> TRUE, web_results |-> web[1], wiki_results |-> <<>>,
                       wiki_top_k |-> wiki_top_k, returned |-> <<>>]
                 ELSE [raised |-> FALSE, web_results |-> web[1], wiki_results |-> wiki[1],
                       wiki_top_k |-> wiki_top_k,
                       returned |-> Take(_rank_evidence(web[1] \o wiki[1]), top_k)]

InitRetriever ==
    /\ pc = "retrieve"
    /\ \E top_k \in 0..MaxTopK, web_outcome \in WebOutcomes, wiki_outcome \in WikiOutcomes :
          state = [claim        |-> "Paris is in France.",
                   top_k        |-> top_k,
                   web_outcome  |-> web_outcome,
                   wiki_outcome |-> wiki_outcome]
    /\ NoCache
    /\ ComponentInit

Retrieve ==
    /\ pc = "retrieve"
    /\ LET r == retrieve(state.claim, state.top_k, state.web_outcome, state.wiki_outcome)
       IN  /\ pc' = IF r.raised THEN "raised" ELSE "returned"
           /\ state' = Update(state, r)
    /\ CacheFrame
    /\ ComponentFrame

NextRetriever == Retrieve

SpecRetriever == InitRetriever /\ [][NextRetriever]_vars

(* a non-empty list of placeholders: relevance strictly decreasing *)
IsPlaceholderSet(results) ==
    /\ results # <<>>
    /\ \A i, j \in DOMAIN results :
          i < j => results[i].relevance_score > results[j].relevance_score

(* C15: a provider whose credentials or client are missing or whose call
   fails (timeout, connection error, non-2xx status, malformed body) yields a
   non-empty placeholder list with decreasing relevance, and retrieve does not
   raise. *)
C15_ProvidersDegrade ==
    (pc \in {"returned", "raised"}) =>
        /\ pc = "returned"
        /\ (state.web_outcome.kind # "ok" /\ state.top_k > 0)
              => IsPlaceholderSet(state.web_results)
        /\ (state.wiki_outcome.kind # "ok" /\ state.wiki_top_k > 0)
              => IsPlaceholderSet(state.wiki_results)

(* C20: retrieve returns at most top_k items, in non-increasing order of
   relevance_score x credibility_score, and they are the top_k highest of the
   merged results of the two providers. *)
C20_RankedTopK ==
    (pc = "returned") =>
        LET fetched  == state.web_results \o state.wiki_results
            score(e) == e.relevance_score * e.credibility_score
            key(e)   == <<e.source_url, score(e)>>
            returned == state.returned
            out      == {<<returned[i].source_url, returned[i].relevance_score>> :
                            i \in DOMAIN returned}
            all      == {key(fetched[i]) : i \in DOMAIN fetched}
        IN  /\ Len(returned) <= state.top_k
            /\ Len(returned) = Min(state.top_k, Len(fetched))
            /\ \A i, j \in DOMAIN returned :
                  i < j => returned[i].relevance_score >= returned[j].relevance_score
            /\ Cardinality(out) = Len(returned)
            /\ out \subseteq all
            /\ \A x \in all \ out : \A y \in out : x[2] <= y[2]

(* four items asked for without a search key: three placeholders from the web
   provider, and one reference item that ranks above them *)
C20_Witness ==
    /\ pc = "returned"
    /\ state.top_k = 4
    /\ state.web_outcome.kind = "no_key"
    /\ Len(state.returned) = 4
    /\ state.returned[1].source_url = WikiUrl("Paris")
    /\ state.returned[2].source_url = state.web_results[1].source_url

-----------------------------------------------------------------------------
(* MemoryStore on its own: any sequence of store_verification and check_claim
   calls on two claim texts, with or without a durable backend.  pc stays
   "ready"; state is the last call and what it returned. *)

(* What the durable write of one store_verification call does: the upsert goes
   through; the upsert statement fails and the insert / update fallback goes
   through; the engine cannot be reached; every statement fails.  The last two
   are swallowed and leave the table as it was. *)
StoreOutcomes == {"upsert", "insert_or_update", "unreachable", "write_error"}

Written(outcome) == outcome \in {"upsert", "insert_or_update"}

(* store_verification: the mirror and the table after the call; it has no
   path that raises on a backend failure *)
store_verification(mem, tbl, claim_text, action, corrected_claim, evidence_urls, confidence, outcome) ==
    LET payload == Payload(action, corrected_claim, evidence_urls, confidence)
    IN  [raised    |-> FALSE,
         in_memory |-> StoreInMemory(mem, claim_text, payload),
         table     |-> StoreInTable(tbl, claim_text, payload, Written(outcome))]

StoreTexts == {"Paris is in France.", "The Eiffel Tower was built in 1889."}

StorePayloads ==
    { Payload("ACCEPT", NoneStr, <<"https://example.com/evidence/0">>, 100),
      Payload("CORRECT", NoneStr, <<>>, 80) }

InitStore ==
    /\ pc = "ready"
    /\ state = [op |-> "none"]
    /\ enabled \in BOOLEAN
    /\ in_memory = EmptyDict
    /\ table = EmptyDict
    /\ stored = EmptyDict
    /\ ComponentInit

Store ==
    /\ pc = "ready"
    /\ \E claim_text \in StoreTexts, p \in StorePayloads, outcome \in StoreOutcomes :
          LET after == store_verification(in_memory, table, claim_text, p.action,
                                          p.corrected_claim, p.evidence_urls,
                                          p.confidence, outcome)
          IN  /\ in_memory' = after.in_memory
              /\ table' = after.table
              /\ pc' = IF after.raised THEN "raised" ELSE "ready"
              /\ stored' = Update(stored, claim_text :> p)
              /\ state' = [op |-> "store", claim_text |-> claim_text, payload |-> p,
                           outcome |-> outcome]
    /\ UNCHANGED enabled
    /\ ComponentFrame

Check ==
    /\ pc = "ready"
    /\ \E claim_text \in StoreTexts, db_ok \in BOOLEAN :
          state' = [op |-> "check", claim_text |-> claim_text, db_ok |-> db_ok,
                    result |-> check_claim(claim_text, db_ok)]
    /\ pc' = pc
    /\ CacheFrame
    /\ ComponentFrame

NextStore == Store \/ Check

SpecStore == InitStore /\ [][NextStore]_vars

(* C16: whatever the durable backend does (absent, unreachable, conflict,
   write error), store_verification returns normally and the mirror then holds
   the new record under the claim text. *)
C16_StoreNeverFails ==
    /\ pc # "raised"
    /\ state.op = "store" =>
          /\ state.claim_text \in DOMAIN in_memory
          /\ in_memory[state.claim_text] = state.payload
    /\ DOMAIN in_memory = DOMAIN stored
    /\ \A t \in DOMAIN stored : in_memory[t] = stored[t]

(* a store whose durable write failed over an older row of the same text *)
C16_Witness ==
    /\ state.op = "store"
    /\ enabled
    /\ state.outcome = "write_error"
    /\ state.claim_text \in DOMAIN table
    /\ table[state.claim_text].action # state.payload.action
    /\ in_memory[state.claim_text] = state.payload

(* C17: check_claim returns the record of the most recent store_verification
   for the text, or None if there was none, with and without a durable
   backend and also after a durable write that failed. *)
C17_ReadsLatestStore ==
    state.op = "check" =>
        state.result = IF state.claim_text \in DOMAIN stored
                       THEN <<stored[state.claim_text]>>
                       ELSE <<>>

-----------------------------------------------------------------------------
(* Concurrent verify requests on the one pipeline main.py keeps
   (_default_pipeline), in one event loop: a request gives up control between
   its nodes and inside the awaits of generation, retrieval and scoring, while
   check_claim and store_verification are synchronous, so _check_memory and
   _update_memory each run without interruption.  pc and state are per
   request; the mirror and the table are the pipeline's. *)

Requests == {1, 2}

(* the answers generation gives in this specification: one claim, ten words *)
ConcResponses == {<<sParis, sQuestion, sQuestion>>}

ConcRetrieveKinds == {"placeholder", "reference"}

(* request r has run `node`, which returned `update` *)
ConcRun(r, node, update) ==
    /\ state' = [state EXCEPT ![r] = Update(state[r], update)]
    /\ pc' = [pc EXCEPT ![r] = NextNode(node, state'[r])]

InitConc ==
    /\ pc = [r \in Requests |-> "call_llm"]
    /\ state = [r \in Requests |-> [query |-> "q", user_id |-> NoneStr, errors |-> <<>>]]
    /\ graph \in BOOLEAN
    /\ enabled \in BOOLEAN
    /\ in_memory = EmptyDict
    /\ table = EmptyDict
    /\ stored = EmptyDict
    /\ trace = <<>>
    /\ gen_tiers = <<>>
    /\ hits = {}
    /\ retrieve_calls = {}
    /\ verify_calls = {}
    /\ store_calls = {}
    /\ failed = "none"
    /\ decided = EmptyDict

ConcCallLlm ==
    /\ \E r \in Requests, text \in ConcResponses :
          /\ pc[r] = "call_llm"
          /\ LET reply == [ok |-> TRUE, text |-> text]
             IN  ConcRun(r, "call_llm", _call_llm(state[r], reply, reply)[1])
    /\ CacheFrame
    /\ ComponentFrame

ConcExtractClaims ==
    /\ \E r \in Requests :
          /\ pc[r] = "extract_claims"
          /\ ConcRun(r, "extract_claims", _extract_claims(state[r]))
    /\ CacheFrame
    /\ ComponentFrame

ConcCheckMemory ==
    /\ \E r \in Requests :
          /\ pc[r] = "check_memory"
          /\ \E db_ok \in [DOMAIN Get(state[r], "claims", <<>>) ->
                              IF enabled THEN BOOLEAN ELSE {FALSE}] :
                LET after == Update(state[r], _check_memory(state[r], db_ok))
                IN  /\ state' = [state EXCEPT ![r] =
                                    IF ~graph /\ _route_by_cache(after) = "all_cached"
                                    THEN SetDefaults(after) ELSE after]
                    /\ pc' = [pc EXCEPT ![r] = NextNode("check_memory", after)]
    /\ CacheFrame
    /\ ComponentFrame

ConcRetrieveEvidence ==
    /\ \E r \in Requests :
          /\ pc[r] = "retrieve_evidence"
          /\ \E kinds \in [RetrievePositions(state[r]) -> ConcRetrieveKinds] :
                LET results == [i \in RetrievePositions(state[r]) |->
                                   RetrieveResult(state[r].claims[i].text, kinds[i])]
                IN  ConcRun(r, "retrieve_evidence", _retrieve_evidence(state[r], results))
    /\ CacheFrame
    /\ ComponentFrame

ConcVerifyClaims ==
    /\ \E r \in Requests :
          /\ pc[r] = "verify_claims"
          /\ \E llm_results \in [VerifyPositions(state[r]) -> ScorerOutcomes] :
                ConcRun(r, "verify_claims", _verify_claims(state[r], llm_results))
    /\ CacheFrame
    /\ ComponentFrame

ConcCheckEscalation ==
    /\ \E r \in Requests :
          /\ pc[r] = "check_escalation"
          /\ ConcRun(r, "check_escalation", _check_escalation(state[r]))
    /\ CacheFrame
    /\ ComponentFrame

ConcApplyPolicy ==
    /\ \E r \in Requests :
          /\ pc[r] = "apply_policy"
          /\ ConcRun(r, "apply_policy", _apply_policy(state[r]))
    /\ CacheFrame
    /\ ComponentFrame

ConcAssembleAnswer ==
    /\ \E r \in Requests :
          /\ pc[r] = "assemble_answer"
          /\ ConcRun(r, "assemble_answer", _assemble_answer(state[r]))
    /\ CacheFrame
    /\ ComponentFrame

ConcUpdateMemory ==
    /\ \E r \in Requests :
          /\ pc[r] = "update_memory"
          /\ \E written \in [StorePositions(state[r]) ->
                                IF enabled THEN BOOLEAN ELSE {FALSE}] :
                /\ in_memory' = MirrorAfter(in_memory, state[r], 1)
                /\ table' = TableAfter(table, state[r], written, 1)
          /\ stored' = LatestStores(stored, state[r])
          /\ ConcRun(r, "update_memory", EmptyDict)
    /\ UNCHANGED enabled
    /\ ComponentFrame

NextConc ==
    \/ ConcCallLlm
    \/ ConcExtractClaims
    \/ ConcCheckMemory
    \/ ConcRetrieveEvidence
    \/ ConcVerifyClaims
    \/ ConcCheckEscalation
    \/ ConcApplyPolicy
    \/ ConcAssembleAnswer
    \/ ConcUpdateMemory

SpecConc == InitConc /\ [][NextConc]_vars

(* C18: under every interleaving, a step of one request leaves the claims,
   evidence, verification results and decisions of the other requests as they
   were, and the record the cache returns for a claim text is the record of
   the last store_verification call that ran for that text. *)
C18_OnlyCacheShared ==
    /\ [][\A r \in Requests : pc'[r] = pc[r] => state'[r] = state[r]]_vars
    /\ [](\A t \in DOMAIN stored : \A db_ok \in BOOLEAN :
             check_claim(t, db_ok) = <<stored[t]>>)

-----------------------------------------------------------------------------
(* ClaimExtractor.extract on its own: three calls, two on one text and one on
   another text.  pc is the call about to be made; state holds the two texts
   and what the calls returned. *)

ExtractorSentences == {sParis, sParisWs, sEiffel, sHello, sQuestion, sCapital, sToday}

(* answers of at most two sentences *)
ExtractorTexts ==
    {<<>>} \cup {<<s>> : s \in ExtractorSentences}
           \cup {<<s, t>> : s \in ExtractorSentences, t \in {sParis, sParisWs, sCapital}}

InitExtractor ==
    /\ pc = "extract"
    /\ \E text \in ExtractorTexts, other \in ExtractorTexts :
          state = [text |-> text, other |-> other]
    /\ NoCache
    /\ ComponentInit

Extract ==
    /\ pc = "extract"
    /\ state' = Update(state, [first |-> extract(state.text)])
    /\ pc' = "extract_again"
    /\ CacheFrame
    /\ ComponentFrame

ExtractAgain ==
    /\ pc = "extract_again"
    /\ state' = Update(state, [second |-> extract(state.text)])
    /\ pc' = "extract_other"
    /\ CacheFrame
    /\ ComponentFrame

ExtractOther ==
    /\ pc = "extract_other"
    /\ state' = Update(state, [third |-> extract(state.other)])
    /\ pc' = "returned"
    /\ CacheFrame
    /\ ComponentFrame

NextExtractor == Extract \/ ExtractAgain \/ ExtractOther

SpecExtractor == InitExtractor /\ [][NextExtractor]_vars

(* the (id, claim_type, position) of every claim of a list *)
Signature(claims) ==
    [i \in DOMAIN claims |-> <<claims[i].id, claims[i].claim_type, claims[i].position>>]

(* the claims two calls returned, each with the sentence it was made from *)
ClaimsWithSentence(text, claims) ==
    {[claim |-> claims[i], sentence |-> text[claims[i].position + 1]] : i \in DOMAIN claims}

(* C21: two extract calls on one text return the same sequence of (id,
   claim_type, position), and any two claims, of one call or of calls on two
   texts, whose sentences are the same once whitespace runs are collapsed
   have the same id and the same text, as have any two claims of the same
   text. *)
C21_IdsFollowNormalizedText ==
    pc = "returned" =>
        LET all == ClaimsWithSentence(state.text, state.first)
                       \cup ClaimsWithSentence(state.text, state.second)
                       \cup ClaimsWithSentence(state.other, state.third)
        IN  /\ Signature(state.first) = Signature(state.second)
            /\ \A a, b \in all :
                  /\ a.sentence.words = b.sentence.words
                        => (a.claim.id = b.claim.id /\ a.claim.text = b.claim.text)
                  /\ a.claim.text = b.claim.text => a.claim.id = b.claim.id

(* the same sentence written with one and with two blanks between its words,
   once in each text, at different positions *)
C21_Witness ==
    /\ pc = "returned"
    /\ state.text = <<sCapital, sParis>>
    /\ state.other = <<sParisWs>>
    /\ Len(state.first) = 2
    /\ state.first[2].position = 1
    /\ state.third[1].position = 0
    /\ state.first[2].id = state.third[1].id
    /\ state.first[2].source_sentence # state.third[1].source_sentence

(* the claim_type the first-match priority gives a sentence: numerical for a
   number or a unit word, else temporal for a month or relative-day word,
   else entity for one of in / at / near / located / based, else event *)
TypeByPriority(s) ==
    LET words == {Bare(LowerWord(s.words[i])) : i \in DOMAIN s.words}
    IN  CASE words \cap ({"1889"} \cup NumericWords) # {} -> "numerical"
          [] OTHER ->
             CASE words \cap TemporalWords # {} -> "temporal"
               [] OTHER ->
                  IF words \cap {"in", "at", "near", "located", "based"} # {}
                  THEN "entity" ELSE "event"

(* C22, as claimed: "Paris is the capital of France." yields exactly one
   claim, of type entity. *)
C22_ScenarioAEntity ==
    (pc # "extract" /\ state.text = <<sCapital>>) =>
        /\ Len(state.first) = 1
        /\ state.first[1].claim_type = "entity"

(* C22, amended: "Paris is the capital of France." yields exactly one claim,
   of type event, since it has no number, no temporal word and none of the
   locative words; every claim's type is the one the first-match priority
   gives its sentence. *)
C22_ScenarioAEvent ==
    pc # "extract" =>
        /\ state.text = <<sCapital>> =>
              /\ Len(state.first) = 1
              /\ state.first[1].text = "Paris is the capital of France."
              /\ state.first[1].claim_type = "event"
        /\ \A i \in DOMAIN state.first :
              state.first[i].claim_type =
                  TypeByPriority(state.text[state.first[i].position + 1])

(* the scenario's sentence, extracted *)
C22_Witness ==
    /\ pc = "returned"
    /\ state.text = <<sCapital>>
    /\ Len(state.first) = 1
    /\ state.first[1].position = 0
    /\ state.first[1].claim_type = "event"

-----------------------------------------------------------------------------
(* The pipeline in its fully degraded configuration: no search key or a web
   search that fails, so _search_web returns its placeholders; the reference
   provider absent, failing or answering; no delegated scorer; the cache
   empty at the start.  Generation works. *)

(* retrieve(claim.text) is called without top_k *)
DefaultTopK == 5

sOne == Sentence(<<Numeral(1)>>, " ")

DegradedResponses ==
    { <<>>,
      <<sOne, sCapital, sHello>>,
      <<sParis, sParisWs, sHello>>,
      <<sNotSure, sEiffel, sOne>> }

DegradedProviderOutcomes ==
    [ok : {TRUE}, text : DegradedResponses] \cup [ok : {FALSE}, text : {<<>>}]

DegradedWebOutcomes == {o \in WebOutcomes : o.kind \in {"no_key", "http_error"}}

DegradedWikiOutcomes ==
    {o \in WikiOutcomes : o.kind \in {"no_client", "malformed"} \/ Len(o.body) = 3}

CallLlmDegraded == CallLlmFrom(DegradedProviderOutcomes)

RetrieveEvidenceDegraded ==
    /\ pc = "retrieve_evidence"
    /\ Step("retrieve_evidence")
    /\ \E web \in [RetrievePositions(state) -> DegradedWebOutcomes],
          wiki \in [RetrievePositions(state) -> DegradedWikiOutcomes] :
          LET called == [i \in RetrievePositions(state) |->
                            retrieve(state.claims[i].text, DefaultTopK, web[i], wiki[i])]
              raising == {i \in RetrievePositions(state) : called[i].raised}
          IN  IF raising = {}
              THEN /\ state' = Update(state,
                                  _retrieve_evidence(state,
                                      [i \in RetrievePositions(state) |-> called[i].returned]))
                   /\ retrieve_calls' =
                          retrieve_calls \cup TextsAt(state.claims, RetrievePositions(state))
                   /\ pc' = NextNode("retrieve_evidence", state')
                   /\ failed' = failed
              ELSE /\ retrieve_calls' =
                          retrieve_calls \cup
                          TextsAt(state.claims,
                                  {i \in RetrievePositions(state) :
                                      \A k \in raising : i <= k})
                   /\ Raise("retrieval")
    /\ UNCHANGED <<graph, in_memory, table, enabled, gen_tiers, hits,
                   verify_calls, store_calls, decided, stored>>

NextDegraded ==
    \/ StartRequest
    \/ CallLlmDegraded
    \/ ExtractClaims
    \/ CheckMemory
    \/ RetrieveEvidenceDegraded
    \/ VerifyClaimsHeuristic
    \/ CheckEscalation
    \/ ApplyPolicy
    \/ AssembleAnswer
    \/ UpdateMemory

SpecDegraded == Init /\ [][NextDegraded]_vars

(* C30: in the fully degraded configuration every claim with a token of 4 or
   more characters is scored support 1.0 and accepted, every other claim is
   scored 0.3 and abstained on, also when the decision is replayed from the
   cache, and every answer has hallucination_score 0 and confidence 1. *)
C30_DegradedAcceptsEverything ==
    (LastNode \in {"apply_policy", "assemble_answer", "update_memory"}) =>
        /\ \A i \in DOMAIN state.claims :
              LET c == state.claims[i]
                  d == state.decisions[i]
              IN  /\ d.action = IF ClaimTokens(c.text) # {} THEN "ACCEPT" ELSE "ABSTAIN"
                  /\ PolicyDerived(d) =>
                        /\ c.id \in DOMAIN state.verification_results
                        /\ state.verification_results[c.id].support_score =
                              IF ClaimTokens(c.text) # {} THEN 100 ELSE 30
                        /\ Len(d.evidence_urls) >= 3
        /\ "final_answer" \in DOMAIN state =>
              /\ FracEq(state.final_answer.hallucination_score, Frac(0, 1))
              /\ FracEq(state.final_answer.confidence, Frac(1, 1))
              /\ state.final_answer.claim_breakdown.corrected = 0
              /\ state.final_answer.claim_breakdown.flagged = 0

(* "1. Paris is the capital of France. Hello there.": the first claim has no
   token of 4 characters and is abstained on, the second is accepted on three
   placeholders and a reference item *)
C30_Witness ==
    /\ pc = "done"
    /\ Len(state.decisions) = 2
    /\ state.decisions[1].original_claim = "1."
    /\ state.decisions[1].action = "ABSTAIN"
    /\ PolicyDerived(state.decisions[1])
    /\ state.decisions[2].original_claim = "Paris is the capital of France."
    /\ state.decisions[2].action = "ACCEPT"
    /\ Len(state.decisions[2].evidence_urls) = 4
    /\ state.verification_results[state.decisions[2].claim_id].support_score = 100
    /\ FracEq(state.final_answer.hallucination_score, Frac(0, 1))

====
